---------------------------- MODULE Spec2Model ----------------------------
(***************************************************************************)
(* A model of the Cooperative-Positioning data handler: DataHandler        *)
(* (setDataSet: read, syncData, calculateGroundtruthOdometry,              *)
(* calculateGroundtruthMeasurement), Robot (error records, quartiles,      *)
(* outlier removal, sample statistics) and Simulator (setSimulation).      *)
(*                                                                         *)
(* Units.  The doubles of the program are modelled by integers:            *)
(*   time    : 1 unit, the sample period being SamplePeriod units;         *)
(*   angle   : PI units are pi radians (1 unit = pi/16 rad);               *)
(*   length  : 1 unit = 0.25 m (the simulator's arena is 60 x 32 units);   *)
(*   velocity: length (angle) units per time unit.                         *)
(* The inputs are drawn so that every division of the program is exact     *)
(* (raw values are multiples of 4), every square root is taken of a        *)
(* perfect square and every atan2/cos/sin is taken on an axis or a         *)
(* diagonal; arithmetic is exact, so floating-point rounding is outside    *)
(* the model.                                                              *)
(*                                                                         *)
(* Simulator.  The limits of Simulator.h are put on the same grid: the     *)
(* arena is 15 m x 8 m = 60 x 32 length units, and the velocity limits     *)
(* (0.16 m/s, 0.35 rad/s) are rounded to grid values that keep one step    *)
(* of SamplePeriod exact (ForwardVelocityLimit, AngularVelocityLimit).     *)
(* The simulated robots and landmarks lie on the line through the centre   *)
(* of the arena and face along it; the dataset robots lie on the line      *)
(* y = 0.  Reads past the end of a vector return a value of Garbage and    *)
(* are recorded in ub, as are writes past the end; front()/back() of an    *)
(* empty vector end the handler with status "segfault".                    *)
(***************************************************************************)
EXTENDS Integers, Sequences, FiniteSets, TLC

VARIABLES
    robots_,                  \* DataHandler::robots_ (sequence of Robot)
    landmarks_,               \* DataHandler::landmarks_
    barcodes_,                \* DataHandler::barcodes_
    total_robots,             \* DataHandler::total_robots
    total_landmarks,          \* DataHandler::total_landmarks
    total_barcodes,           \* DataHandler::total_barcodes
    total_synced_datapoints,  \* DataHandler::total_synced_datapoints
    disk,                     \* the dataset directory DataHandler::dataset_ names
    sim,                      \* the Simulator object's fields and loop cursors
    pc,                       \* position inside the running handler
    status,                   \* how the last handler ended / is running
    ub,                       \* undefined behaviour met in the running handler
    calls,                    \* the handlers called so far, in order
    prev                      \* derived records at the end of the previous calls

vars == <<robots_, landmarks_, barcodes_, total_robots, total_landmarks,
          total_barcodes, total_synced_datapoints, disk, sim, pc, status,
          ub, calls, prev>>

-----------------------------------------------------------------------------
(* Program constants, in model units *)

SamplePeriod == 2            \* sample_period argument of both handlers
PI == 16                     \* M_PI
TwoPI == 2 * PI
WrapThreshold == 25          \* "5" rad = 25.46 angle units; angles are integers
UnsignedLongModulus == 1073741824  \* unsigned long wraps (2^64 in the program)
RobotIdLimit == 6            \* "subject_ID < 6": ids 1..5 are robots
DatasetRobots == 5
DatasetLandmarks == 15

-----------------------------------------------------------------------------
(* Generic helpers *)

Last(s) == s[Len(s)]

RECURSIVE SeqSum(_)
SeqSum(s) == IF s = <<>> THEN 0 ELSE Head(s) + SeqSum(Tail(s))

Abs(a) == IF a < 0 THEN -a ELSE a

Min2(a, b) == IF a < b THEN a ELSE b

Max2(a, b) == IF a > b THEN a ELSE b

Min3(a, b, c) == Min2(a, Min2(b, c))

(* std::sqrt on a perfect square *)
Sqrt(n) == CHOOSE r \in 0..n : r * r = n

(* std::atan2 on an axis or a diagonal; atan2(0, 0) = 0, atan2(+0, x<0) = pi *)
Atan2(dy, dx) ==
    CASE dy = 0 /\ dx >= 0       -> 0
      [] dy = 0 /\ dx < 0        -> PI
      [] dx = 0 /\ dy > 0        -> PI \div 2
      [] dx = 0 /\ dy < 0        -> -(PI \div 2)
      [] dx > 0 /\ dy = dx       -> PI \div 4
      [] dx > 0 /\ dy = -dx      -> -(PI \div 4)
      [] dx < 0 /\ dy = -dx      -> 3 * (PI \div 4)
      [] dx < 0 /\ dy = dx       -> -(3 * (PI \div 4))

(* std::cos / std::sin on a multiple of pi/2 *)
Cos(a) ==
    CASE a % TwoPI = 0               -> 1
      [] a % TwoPI = PI              -> -1
      [] a % TwoPI = PI \div 2       -> 0
      [] a % TwoPI = 3 * (PI \div 2) -> 0

Sin(a) ==
    CASE a % TwoPI = 0               -> 0
      [] a % TwoPI = PI              -> 0
      [] a % TwoPI = PI \div 2       -> 1
      [] a % TwoPI = 3 * (PI \div 2) -> -1

(* while (a >= M_PI) a -= 2 M_PI;  while (a < -M_PI) a += 2 M_PI; *)
RECURSIVE WrapDown(_)
WrapDown(a) == IF a >= PI THEN WrapDown(a - TwoPI) ELSE a

RECURSIVE WrapUp(_)
WrapUp(a) == IF a < -PI THEN WrapUp(a + TwoPI) ELSE a

(* the range kept is (-pi, pi] instead *)
RECURSIVE NormaliseAngleUpperClosed(_)
NormaliseAngleUpperClosed(a) ==
    IF a > PI THEN NormaliseAngleUpperClosed(a - TwoPI)
    ELSE IF a <= -PI THEN NormaliseAngleUpperClosed(a + TwoPI)
    ELSE a

NormaliseAngle(a) == WrapUp(WrapDown(a))

(* the difference is not brought into [-pi, pi] *)
ArcUnwrapped(d) == d

(* atan2(sin(d), cos(d)) for |d| <= 2 pi: d brought into [-pi, pi]; a       *)
(* difference of exactly +pi or -pi keeps its sign (sin(pi) > 0 in doubles) *)
AtanSinCos(d) ==
    IF d > PI THEN d - TwoPI ELSE IF d < -PI THEN d + TwoPI ELSE d

-----------------------------------------------------------------------------
(* Records of Robot.h *)

State(time, x, y, orientation) ==
    [time |-> time, x |-> x, y |-> y, orientation |-> orientation]

Odometry(time, forward_velocity, angular_velocity) ==
    [time |-> time, forward_velocity |-> forward_velocity,
     angular_velocity |-> angular_velocity]

Measurement(time, subjects, ranges, bearings) ==
    [time |-> time, subjects |-> subjects, ranges |-> ranges,
     bearings |-> bearings]

Measurement1(time, subject, range, bearing) ==
    Measurement(time, <<subject>>, <<range>>, <<bearing>>)

RobotData == [states |-> <<>>, odometry |-> <<>>, measurements |-> <<>>]

(* a double statistic kept as a fraction; den = 0 is a division by zero *)
Frac(num, den) == [num |-> num, den |-> den]

ErrorStatistics ==
    [mean |-> Frac(0, 1), variance |-> Frac(0, 1), median |-> 0, q1 |-> 0,
     q3 |-> 0, iqr |-> 0]

Robot ==
    [id |-> 0, barcode |-> 0, raw |-> RobotData, synced |-> RobotData,
     groundtruth |-> RobotData, error |-> RobotData,
     range_error |-> ErrorStatistics, bearing_error |-> ErrorStatistics,
     forward_velocity_error |-> ErrorStatistics,
     angular_velocity_error |-> ErrorStatistics]

Landmark == [id |-> 0, barcode |-> 0, x |-> 0, y |-> 0]

(* std::vector::resize(n, filler): keep the first n elements, pad with filler *)
Resize(v, n, filler) ==
    [i \in 1..n |-> IF i <= Len(v) THEN v[i] ELSE filler]


-----------------------------------------------------------------------------
(* The dataset directory: Barcodes.dat, Landmark_Groundtruth.dat and, per   *)
(* robot, Robotx_Groundtruth.dat, Robotx_Odometry.dat, Robotx_Measurement.dat *)

MaxRaw == 3        \* most raw pose samples of a stream (odometry: one more)
MaxMeas == 4       \* most raw measurement records of a stream
BaseTime == 100    \* timestamp of the earliest raw sample

NoDisk == [barcodes |-> <<>>, landmarks |-> <<>>, robots |-> <<>>]

(* Barcodes.dat of the UTIAS datasets: ids 1..5 robots, 6..20 landmarks *)
BarcodeFile ==
    <<5, 14, 41, 32, 23, 72, 27, 54, 70, 36, 18, 25, 9, 81, 16, 90, 61, 45,
      7, 63>>

UnknownBarcode == 99     \* a barcode that is not in Barcodes.dat

(* Landmark_Groundtruth.dat: landmark id on the x axis at 8 * id *)
LandmarkFile ==
    [i \in 1..DatasetLandmarks |->
        [id |-> i + DatasetRobots, x |-> 8 * (i + DatasetRobots), y |-> 0]]

RobotX(r) == 200 + 40 * r

(* n pose samples every 2 time units from start, moving 4 units per sample *)
PoseStream(r, start, n, thetas) ==
    [k \in 1..n |->
        State(start + 2 * (k - 1), RobotX(r) + 4 * (k - 1), 0, thetas[k])]

OdometryStream(start, n) ==
    [k \in 1..n |-> Odometry(start + 2 * (k - 1), 4 * k, 4 * (k % 2))]

ZeroThetas == [k \in 1..(MaxRaw + 1) |-> 0]

(* single-subject records as Robotx_Measurement.dat lists them *)
SeesRobot(r, time) ==
    Measurement1(time, BarcodeFile[(r % DatasetRobots) + 1], 40, 0)

SeesLandmark(time) == Measurement1(time, BarcodeFile[6], 160, -12)

SeesUnknown(time) == Measurement1(time, UnknownBarcode, 8, 4)

BaseMeasurements(r) ==
    <<SeesRobot(r, BaseTime + 1), SeesRobot(r, BaseTime + 1),
      SeesLandmark(BaseTime + 3)>>

BaseRobot(r) ==
    [states |-> PoseStream(r, BaseTime, 3, ZeroThetas),
     odometry |-> OdometryStream(BaseTime, 4),
     measurements |-> BaseMeasurements(r)]

BaseDisk ==
    [barcodes |-> BarcodeFile, landmarks |-> LandmarkFile,
     robots |-> [r \in 1..DatasetRobots |-> BaseRobot(r)]]

WithRobot(r, data) == [BaseDisk EXCEPT !.robots[r] = data]

(* stream extents: where a stream starts and how many samples it has *)
Starts == {BaseTime - 1, BaseTime, BaseTime + 1}

PoseExtents(r) ==
    {PoseStream(r, s, n, ZeroThetas) : s \in Starts, n \in 0..MaxRaw}

OdometryExtents == {OdometryStream(s, n) : s \in Starts, n \in 0..(MaxRaw + 1)}

MeasurementOptions(r) ==
    {SeesRobot(r, BaseTime + 1), SeesUnknown(BaseTime + 1),
     SeesLandmark(BaseTime + 3), SeesUnknown(BaseTime + 3),
     SeesRobot(r, BaseTime + 7)}

MeasurementExtents(r) ==
    UNION {{m \in [1..n -> MeasurementOptions(r)] :
               \A j \in 1..(n - 1) : m[j].time <= m[j + 1].time} :
           n \in 0..MaxMeas}

(* datasets that differ from the base in one stream of robot 1 or robot 2 *)
ExtentDisks ==
    UNION {{WithRobot(r, [BaseRobot(r) EXCEPT !.states = p]) :
               p \in PoseExtents(r)}
           \cup {WithRobot(r, [BaseRobot(r) EXCEPT !.odometry = o]) :
               o \in OdometryExtents}
           \cup {WithRobot(r, [BaseRobot(r) EXCEPT !.measurements = m]) :
               m \in MeasurementExtents(r)} :
           r \in 1..2}

(* datasets whose robot 1 turns: raw orientations in [-pi, pi], sampled at  *)
(* odd times so that every synced step but the first is interpolated        *)
RawAngles == {-PI, 0, 3 * (PI \div 4), PI}

AngleDisks ==
    {WithRobot(1, [BaseRobot(1) EXCEPT
                      !.states = PoseStream(1, BaseTime + 1, 3, th)]) :
        th \in [1..3 -> RawAngles]}

(* a dataset whose robot 1 starts late and whose robot 2 has a single pose *)
ClampDisks ==
    {[WithRobot(1, [BaseRobot(1) EXCEPT
                       !.states = PoseStream(1, BaseTime + 1, 2, ZeroThetas)])
         EXCEPT !.robots[2].states = PoseStream(2, BaseTime, 1, ZeroThetas)]}

(* a dataset whose robot 1, turning, measures a landmark behind it *)
BearingDisks ==
    {WithRobot(1, [BaseRobot(1) EXCEPT
                      !.states = PoseStream(1, BaseTime + 1, 3,
                                            <<0, 3 * (PI \div 4), 0>>),
                      !.measurements =
                          <<SeesLandmark(BaseTime + 1),
                            SeesRobot(1, BaseTime + 1),
                            SeesLandmark(BaseTime + 3)>>])}

(* a dataset whose Landmark_Groundtruth.dat lists landmark 7 before         *)
(* landmark 6                                                               *)
ShuffledDisks ==
    {[BaseDisk EXCEPT !.landmarks[1] = LandmarkFile[2],
                      !.landmarks[2] = LandmarkFile[1]]}

Datasets ==
    ExtentDisks \cup AngleDisks \cup ClampDisks \cup BearingDisks
        \cup ShuffledDisks

-----------------------------------------------------------------------------
(* DataHandler::setDataSet, up to the end of the extraction                 *)

ReadBarcodes(files, robots) ==
    [i \in 1..Len(robots) |-> [robots[i] EXCEPT !.barcode = files.barcodes[i]]]

ReadLandmarks(files) ==
    [i \in 1..Len(files.landmarks) |->
        [id |-> files.landmarks[i].id,
         barcode |-> files.barcodes[files.landmarks[i].id],
         x |-> files.landmarks[i].x, y |-> files.landmarks[i].y]]

(* readGroundTruth, readOdometry, readMeasurements of one robot *)
ReadRobot(robot, file) ==
    [robot EXCEPT !.raw = [states |-> file.states,
                           odometry |-> file.odometry,
                           measurements |-> file.measurements],
                  !.synced.measurements = <<>>]


-----------------------------------------------------------------------------
(* DataHandler::syncData                                                    *)

(* what a read past the end of a vector may return *)
Garbage == {0, 4}

RobotMinimumTime(robot) ==
    Min3(robot.raw.states[1].time, robot.raw.odometry[1].time,
         robot.raw.measurements[1].time)

RobotMaximumTime(robot) ==
    Min3(Last(robot.raw.states).time, Last(robot.raw.odometry).time,
         Last(robot.raw.measurements).time)

RECURSIVE MinimumTime(_, _, _)
MinimumTime(robots, i, minimum_time) ==
    IF i > Len(robots) THEN minimum_time
    ELSE MinimumTime(robots, i + 1,
            IF RobotMinimumTime(robots[i]) < minimum_time
            THEN RobotMinimumTime(robots[i]) ELSE minimum_time)

RECURSIVE MaximumTime(_, _, _)
MaximumTime(robots, i, maximum_time) ==
    IF i > Len(robots) THEN maximum_time
    ELSE MaximumTime(robots, i + 1,
            IF RobotMaximumTime(robots[i]) > maximum_time
            THEN RobotMaximumTime(robots[i]) ELSE maximum_time)

(* front(), back() or [0] of an empty vector is read: robot 1's states at   *)
(* the start, every stream of the other robots in the horizon loop, and     *)
(* measurements[0] of every robot after its interpolation loop              *)
EmptyStreamRead(robots) ==
    \/ robots[1].raw.states = <<>>
    \/ \E i \in 2..Len(robots) :
          \/ robots[i].raw.states = <<>>
          \/ robots[i].raw.odometry = <<>>
          \/ robots[i].raw.measurements = <<>>
    \/ \E i \in 1..Len(robots) : robots[i].raw.measurements = <<>>

SubtractTime(stream, minimum_time) ==
    [j \in 1..Len(stream) |-> [stream[j] EXCEPT !.time = @ - minimum_time]]

NormaliseTimes(robot, minimum_time) ==
    [robot EXCEPT
        !.raw.states = SubtractTime(@, minimum_time),
        !.raw.odometry = SubtractTime(@, minimum_time),
        !.raw.measurements = SubtractTime(@, minimum_time)]

(* std::find_if(iterator, end, time > t): an index, Len + 1 for end() *)
RECURSIVE FindIf(_, _, _)
FindIf(stream, iterator, t) ==
    IF iterator > Len(stream) THEN iterator
    ELSE IF stream[iterator].time > t THEN iterator
    ELSE FindIf(stream, iterator + 1, t)

(* the value of the earlier sample is held *)
InterpolateHoldPrevious(t, previous_time, next_time, from, to) == from

(* interpolation_factor * (to - from) + from, the factor being             *)
(* (t - previous.time) / (next.time - previous.time)                        *)
Interpolate(t, previous_time, next_time, from, to) ==
    ((t - previous_time) * (to - from)) \div (next_time - previous_time) + from

SyncedState(states, iterator, t) ==
    IF iterator = 1
    THEN State(t, states[1].x, states[1].y, states[1].orientation)
    ELSE IF iterator = Len(states) + 1
    THEN State(t, Last(states).x, Last(states).y, Last(states).orientation)
    ELSE
        LET previous == states[iterator - 1]
            next == states[iterator]
            next_orientation ==
                IF next.orientation - previous.orientation > WrapThreshold
                THEN next.orientation - TwoPI
                ELSE IF next.orientation - previous.orientation < -WrapThreshold
                THEN next.orientation + TwoPI
                ELSE next.orientation
        IN  State(t,
                  Interpolate(t, previous.time, next.time, previous.x, next.x),
                  Interpolate(t, previous.time, next.time, previous.y, next.y),
                  NormaliseAngle(
                      Interpolate(t, previous.time, next.time,
                                  previous.orientation, next_orientation)))

(* the iterator is end(): *odometry_iterator is read past the end *)
OdometryPastEnd(odometry, iterator) ==
    /\ iterator # 1
    /\ iterator # Len(odometry)
    /\ iterator = Len(odometry) + 1

SyncedOdometry(odometry, iterator, t, garbage) ==
    IF iterator = 1 \/ iterator = Len(odometry)
    THEN Odometry(t, 0, 0)
    ELSE IF iterator = Len(odometry) + 1
    THEN Odometry(t, garbage, -garbage)
    ELSE
        LET previous == odometry[iterator - 1]
            next == odometry[iterator]
        IN  Odometry(t,
                Interpolate(t, previous.time, next.time,
                            previous.forward_velocity, next.forward_velocity),
                Interpolate(t, previous.time, next.time,
                            previous.angular_velocity, next.angular_velocity))

(* for (double t = 0.0; t <= maximum_time; t += sample_period) *)
RECURSIVE InterpolationLoop(_, _, _, _, _, _)
InterpolationLoop(raw, states_it, odometry_it, t, maximum_time, garbage) ==
    IF ~(t <= maximum_time)
    THEN [states |-> <<>>, odometry |-> <<>>, past_end |-> FALSE]
    ELSE
        LET gi == FindIf(raw.states, states_it, t)
            oi == FindIf(raw.odometry, odometry_it, t)
            rest == InterpolationLoop(raw, gi, oi, t + SamplePeriod,
                                      maximum_time, garbage)
        IN  [states |-> <<SyncedState(raw.states, gi, t)>> \o rest.states,
             odometry |->
                 <<SyncedOdometry(raw.odometry, oi, t, garbage)>>
                     \o rest.odometry,
             past_end |-> OdometryPastEnd(raw.odometry, oi) \/ rest.past_end]

(* a half is rounded down *)
SyncedTimeHalfDown(time) ==
    ((2 * time + SamplePeriod - 1) \div (2 * SamplePeriod)) * SamplePeriod

(* std::floor(time / sample_period + 0.5) * sample_period *)
SyncedTime(time) ==
    ((2 * time + SamplePeriod) \div (2 * SamplePeriod)) * SamplePeriod

RECURSIVE GroupMeasurements(_, _, _)
GroupMeasurements(raw, j, synced) ==
    IF j > Len(raw) THEN synced
    ELSE IF SyncedTime(raw[j].time) = Last(synced).time
    THEN GroupMeasurements(raw, j + 1,
            [synced EXCEPT ![Len(synced)] =
                Measurement(@.time,
                            Append(@.subjects, raw[j].subjects[1]),
                            Append(@.ranges, raw[j].ranges[1]),
                            Append(@.bearings, raw[j].bearings[1]))])
    ELSE GroupMeasurements(raw, j + 1,
            Append(synced,
                   Measurement(SyncedTime(raw[j].time), raw[j].subjects,
                               raw[j].ranges, raw[j].bearings)))

SyncMeasurements(raw) ==
    GroupMeasurements(raw, 2,
        <<Measurement(SyncedTime(raw[1].time), raw[1].subjects, raw[1].ranges,
                      raw[1].bearings)>>)

(* the interpolation loop starts one sample period late *)
SyncRobotLateStart(robot, maximum_time, garbage) ==
    LET loop == InterpolationLoop(robot.raw, 1, 1, SamplePeriod, maximum_time,
                                  garbage)
    IN  [robot EXCEPT
            !.groundtruth.states = loop.states,
            !.synced.odometry = loop.odometry,
            !.synced.measurements = SyncMeasurements(robot.raw.measurements)]

SyncRobot(robot, maximum_time, garbage) ==
    LET loop == InterpolationLoop(robot.raw, 1, 1, 0, maximum_time, garbage)
    IN  [robot EXCEPT
            !.groundtruth.states = loop.states,
            !.synced.odometry = loop.odometry,
            !.synced.measurements = SyncMeasurements(robot.raw.measurements)]

SyncPastEnd(robot, maximum_time) ==
    InterpolationLoop(robot.raw, 1, 1, 0, maximum_time, 0).past_end

-----------------------------------------------------------------------------
(* DataHandler::calculateGroundtruthOdometry                                *)

(* the loop over the consecutive pairs of groundtruth states *)
GroundtruthOdometryBetweenStates(robot) ==
    LET states == robot.groundtruth.states
    IN  [k \in 1..(Len(states) - 1) |->
            Odometry(states[k].time,
                Sqrt((states[k + 1].x - states[k].x)
                        * (states[k + 1].x - states[k].x)
                     + (states[k + 1].y - states[k].y)
                        * (states[k + 1].y - states[k].y))
                    \div SamplePeriod,
                AtanSinCos(states[k + 1].orientation - states[k].orientation)
                    \div SamplePeriod)]

(* the last sample is not carried over from the synced odometry *)
GroundtruthOdometryWithoutLast(robot) ==
    GroundtruthOdometryBetweenStates(robot)

GroundtruthOdometry(robot) ==
    GroundtruthOdometryBetweenStates(robot)
        \o <<Odometry(Last(robot.synced.odometry).time,
                      Last(robot.synced.odometry).forward_velocity,
                      Last(robot.synced.odometry).angular_velocity)>>

-----------------------------------------------------------------------------
(* DataHandler::getID and DataHandler::calculateGroundtruthMeasurement      *)

RECURSIVE GetIDFrom(_, _, _, _)
GetIDFrom(barcodes, total, i, barcode) ==
    IF i > total THEN -1
    ELSE IF barcodes[i] = barcode THEN i
    ELSE GetIDFrom(barcodes, total, i + 1, barcode)

GetID(barcodes, total, barcode) == GetIDFrom(barcodes, total, 1, barcode)

InvalidRange == -1

InvalidBearing == 2 * PI

(* for (; t < states.size(); t++) if (the times are equal) break; *)
RECURSIVE FindState(_, _, _)
FindState(states, t, time) ==
    IF t > Len(states) THEN t
    ELSE IF states[t].time - time = 0 THEN t
    ELSE FindState(states, t + 1, time)

(* states[t]; past the end of the vector the read returns garbage *)
StateAt(states, t, garbage) ==
    IF t <= Len(states) THEN states[t] ELSE State(garbage, garbage, 0, garbage)

(* the subjects the barcode table does not list are left out *)
GroundtruthBundleOfResolved(robots, landmarks, barcodes, id, t, bundle, g) ==
    LET listed == SelectSeq(bundle.subjects,
                      LAMBDA barcode :
                          GetID(barcodes, Len(barcodes), barcode) # -1)
    IN  Measurement(bundle.time, listed,
                    [s \in 1..Len(listed) |-> 0],
                    [s \in 1..Len(listed) |-> 0])

(* range and bearing of one subject seen by robots[id] at pose index t *)
GroundtruthSubject(robots, landmarks, barcodes, id, t, barcode, garbage) ==
    LET subject_ID == GetID(barcodes, Len(barcodes), barcode)
        self == StateAt(robots[id].groundtruth.states, t, garbage)
        subject ==
            IF subject_ID < RobotIdLimit
            THEN StateAt(robots[subject_ID].groundtruth.states, t, garbage)
            ELSE landmarks[subject_ID - RobotIdLimit + 1]
        x_difference == subject.x - self.x
        y_difference == subject.y - self.y
    IN  IF subject_ID = -1
        THEN [range |-> InvalidRange, bearing |-> InvalidBearing]
        ELSE [range |-> Sqrt(x_difference * x_difference
                             + y_difference * y_difference),
              bearing |-> NormaliseAngle(Atan2(y_difference, x_difference)
                                         - self.orientation)]

GroundtruthBundle(robots, landmarks, barcodes, id, t, bundle, garbage) ==
    LET value(s) == GroundtruthSubject(robots, landmarks, barcodes, id, t,
                                       bundle.subjects[s], garbage)
    IN  Measurement(bundle.time,
                    [s \in 1..Len(bundle.subjects) |-> bundle.subjects[s]],
                    [s \in 1..Len(bundle.subjects) |-> value(s).range],
                    [s \in 1..Len(bundle.subjects) |-> value(s).bearing])

(* the loop over the synced bundles of robots[id]; t is never reset *)
RECURSIVE GroundtruthMeasurements(_, _, _, _, _, _, _)
GroundtruthMeasurements(robots, landmarks, barcodes, id, k, t, garbage) ==
    LET synced == robots[id].synced.measurements
        states == robots[id].groundtruth.states
        found == FindState(states, t, synced[k].time)
        rest == GroundtruthMeasurements(robots, landmarks, barcodes, id,
                                        k + 1, found, garbage)
    IN  IF k > Len(synced)
        THEN [measurements |-> <<>>, past_end |-> FALSE]
        ELSE IF synced[k].subjects = <<>>
        THEN rest
        ELSE [measurements |->
                  <<GroundtruthBundle(robots, landmarks, barcodes, id, found,
                                      synced[k], garbage)>>
                      \o rest.measurements,
              past_end |-> found > Len(states) \/ rest.past_end]

-----------------------------------------------------------------------------
(* Robot::calculateOdometryError and Robot::calculateMeasurementError       *)

OdometryErrorThrows(robot) ==
    robot.groundtruth.odometry = <<>> \/ robot.synced.odometry = <<>>

OdometryError(robot) ==
    [k \in 1..(Len(robot.groundtruth.odometry) - 1) |->
        Odometry(robot.groundtruth.odometry[k].time,
                 robot.groundtruth.odometry[k].forward_velocity
                     - robot.synced.odometry[k].forward_velocity,
                 NormaliseAngle(robot.groundtruth.odometry[k].angular_velocity
                     - robot.synced.odometry[k].angular_velocity))]

(* v[i]; past the end of the vector the read returns garbage *)
ReadAt(v, i, garbage) == IF i <= Len(v) THEN v[i] ELSE garbage

(* the invalid pair is not skipped *)
IsInvalidNever(range, bearing) == FALSE

IsInvalid(range, bearing) == range = InvalidRange /\ bearing = InvalidBearing

(* the subjects s.. of groundtruth bundle k, appended to the error bundle   *)
(* of this time stamp (none yet while first_item)                           *)
RECURSIVE SubjectErrors(_, _, _, _, _)
SubjectErrors(truth, synced, s, bundle, garbage) ==
    IF s > Len(truth.subjects)
    THEN [bundle |-> bundle, threw |-> FALSE]
    ELSE IF truth.subjects[s] # ReadAt(synced.subjects, s, garbage)
    THEN [bundle |-> bundle, threw |-> TRUE]
    ELSE IF IsInvalid(truth.ranges[s], truth.bearings[s])
    THEN SubjectErrors(truth, synced, s + 1, bundle, garbage)
    ELSE SubjectErrors(truth, synced, s + 1,
            Measurement(truth.time,
                Append(bundle.subjects, truth.subjects[s]),
                Append(bundle.ranges,
                       truth.ranges[s] - ReadAt(synced.ranges, s, garbage)),
                Append(bundle.bearings,
                       truth.bearings[s]
                           - ReadAt(synced.bearings, s, garbage))),
            garbage)

RECURSIVE MeasurementErrors(_, _, _, _)
MeasurementErrors(robot, k, errors, garbage) ==
    LET truth == robot.groundtruth.measurements
        synced == robot.synced.measurements
        empty == Measurement(0, <<>>, <<>>, <<>>)
        one == SubjectErrors(truth[k], ReadAt(synced, k, empty), 1, empty,
                             garbage)
        pushed == IF one.bundle.subjects = <<>> THEN errors
                  ELSE Append(errors, one.bundle)
    IN  IF k > Len(truth) THEN [measurements |-> errors, threw |-> FALSE]
        ELSE IF one.threw THEN [measurements |-> pushed, threw |-> TRUE]
        ELSE MeasurementErrors(robot, k + 1, pushed, garbage)

MeasurementErrorThrows(robot) ==
    robot.groundtruth.measurements = <<>> \/ robot.synced.measurements = <<>>

(* a synced bundle or one of its subjects is read past the end *)
MeasurementErrorPastEnd(robot) ==
    \E k \in 1..Len(robot.groundtruth.measurements) :
        \/ k > Len(robot.synced.measurements)
        \/ Len(robot.groundtruth.measurements[k].subjects)
              > Len(robot.synced.measurements[k].subjects)


-----------------------------------------------------------------------------
(* Robot::calculateMedian, calculateQuartiles, setQuartiles, removeOutliers *)

(* std::sort, ascending *)
RECURSIVE Insert(_, _)
Insert(sorted, value) ==
    IF sorted = <<>> THEN <<value>>
    ELSE IF value <= Head(sorted) THEN <<value>> \o sorted
    ELSE <<Head(sorted)>> \o Insert(Tail(sorted), value)

RECURSIVE Sort(_)
Sort(v) == IF v = <<>> THEN <<>> ELSE Insert(Sort(Tail(v)), Head(v))

RECURSIVE Flatten(_)
Flatten(vs) == IF vs = <<>> THEN <<>> ELSE Head(vs) \o Flatten(Tail(vs))

(* unsigned long arithmetic; indices are 0-based as in the program *)
CalculateMedian(lower, upper) ==
    LET median == (upper - lower + 1) % UnsignedLongModulus
    IN  ((((median + 1) % UnsignedLongModulus) \div 2 - 1 + lower)
            % UnsignedLongModulus)

(* the outcome of calculateQuartiles: "ok", "out_of_range" (thrown by      *)
(* at()) or "past_end" (sorted_vector[index] read outside the vector), and  *)
(* the statistics as the call leaves them                                   *)
CalculateQuartiles(sorted_vector, error_statistics) ==
    LET size == Len(sorted_vector)
        index == CalculateMedian(0, (size - 1) % UnsignedLongModulus)
        q1_index == IF size % 2 = 0 THEN CalculateMedian(0, index)
                    ELSE CalculateMedian(0, (index - 1) % UnsignedLongModulus)
        q3_index == IF size % 2 = 0
                    THEN CalculateMedian((index + 1) % UnsignedLongModulus,
                                         (size - 1) % UnsignedLongModulus)
                    ELSE CalculateMedian((index + 1) % UnsignedLongModulus,
                                         size)
        with_median == [error_statistics EXCEPT
                           !.median = sorted_vector[index + 1]]
        with_q1 == [with_median EXCEPT !.q1 = sorted_vector[q1_index + 1]]
        with_q3 == [with_q1 EXCEPT !.q3 = sorted_vector[q3_index + 1]]
    IN  IF ~(index < size)
        THEN [outcome |-> "past_end", statistics |-> error_statistics]
        ELSE IF ~(q1_index < size)
        THEN [outcome |-> "out_of_range", statistics |-> with_median]
        ELSE IF ~(q3_index < size)
        THEN [outcome |-> "out_of_range", statistics |-> with_q1]
        ELSE [outcome |-> "ok",
              statistics |-> [with_q3 EXCEPT !.iqr = with_q3.q3 - with_q3.q1]]

ForwardVelocities(robot) ==
    [k \in 1..Len(robot.error.odometry) |->
        robot.error.odometry[k].forward_velocity]

AngularVelocities(robot) ==
    [k \in 1..Len(robot.error.odometry) |->
        robot.error.odometry[k].angular_velocity]

RangeErrors(robot) ==
    Flatten([k \in 1..Len(robot.error.measurements) |->
                robot.error.measurements[k].ranges])

BearingErrors(robot) ==
    Flatten([k \in 1..Len(robot.error.measurements) |->
                robot.error.measurements[k].bearings])

(* the four calculateQuartiles calls in order; the first that fails ends    *)
(* setQuartiles                                                             *)
SetQuartiles(robot) ==
    LET fv == CalculateQuartiles(Sort(ForwardVelocities(robot)),
                                 robot.forward_velocity_error)
        av == CalculateQuartiles(Sort(AngularVelocities(robot)),
                                 robot.angular_velocity_error)
        rg == CalculateQuartiles(Sort(RangeErrors(robot)), robot.range_error)
        br == CalculateQuartiles(Sort(BearingErrors(robot)),
                                 robot.bearing_error)
        r1 == [robot EXCEPT !.forward_velocity_error = fv.statistics]
        r2 == [r1 EXCEPT !.angular_velocity_error = av.statistics]
        r3 == [r2 EXCEPT !.range_error = rg.statistics]
        r4 == [r3 EXCEPT !.bearing_error = br.statistics]
    IN  IF fv.outcome # "ok" THEN [outcome |-> fv.outcome, robot |-> r1]
        ELSE IF av.outcome # "ok" THEN [outcome |-> av.outcome, robot |-> r2]
        ELSE IF rg.outcome # "ok" THEN [outcome |-> rg.outcome, robot |-> r3]
        ELSE [outcome |-> br.outcome, robot |-> r4]

RangeMultiplier == 10

BearingMultiplier == 20

(* the bearing window is left out *)
IsOutlierByRange(robot, range, bearing) ==
    \/ range < robot.range_error.q1 - RangeMultiplier * robot.range_error.iqr
    \/ range > robot.range_error.q3 + RangeMultiplier * robot.range_error.iqr

IsOutlier(robot, range, bearing) ==
    \/ range < robot.range_error.q1 - RangeMultiplier * robot.range_error.iqr
    \/ range > robot.range_error.q3 + RangeMultiplier * robot.range_error.iqr
    \/ bearing < robot.bearing_error.q1
                    - BearingMultiplier * robot.bearing_error.iqr
    \/ bearing > robot.bearing_error.q3
                    + BearingMultiplier * robot.bearing_error.iqr

(* the positions i.. of a sequence of flags that are TRUE, in order *)
RECURSIVE Kept(_, _)
Kept(flags, i) ==
    IF i > Len(flags) THEN <<>>
    ELSE IF flags[i] THEN <<i>> \o Kept(flags, i + 1)
    ELSE Kept(flags, i + 1)

(* one bundle with the outlying (subject, range, bearing) triples erased *)
WithoutOutliers(robot, bundle) ==
    LET kept == Kept([s \in 1..Len(bundle.subjects) |->
                         ~IsOutlier(robot, bundle.ranges[s],
                                    bundle.bearings[s])], 1)
    IN  Measurement(bundle.time,
                    [j \in 1..Len(kept) |-> bundle.subjects[kept[j]]],
                    [j \in 1..Len(kept) |-> bundle.ranges[kept[j]]],
                    [j \in 1..Len(kept) |-> bundle.bearings[kept[j]]])

(* a bundle left without subjects is not erased *)
OutliersRemovedKeepingEmptyBundles(robot) ==
    [k \in 1..Len(robot.error.measurements) |->
        WithoutOutliers(robot, robot.error.measurements[k])]

(* the loop of removeOutliers, after setQuartiles *)
OutliersRemoved(robot) ==
    LET cleaned == [k \in 1..Len(robot.error.measurements) |->
                       WithoutOutliers(robot, robot.error.measurements[k])]
        kept == Kept([k \in 1..Len(cleaned) |-> cleaned[k].subjects # <<>>],
                     1)
    IN  [j \in 1..Len(kept) |-> cleaned[kept[j]]]

-----------------------------------------------------------------------------
(* Robot::calculateSampleErrorStats                                         *)

SampleStatsThrows(robot) ==
    robot.error.odometry = <<>> \/ robot.error.measurements = <<>>

SquaredDeviations(values, total, n) ==
    SeqSum([i \in 1..Len(values) |->
               (n * values[i] - total) * (n * values[i] - total)])

(* mean = total / n and variance = sum (x - mean)^2 / (n - 1) of a channel *)
(* whose deviations are taken of the given terms                            *)
SampleStats(statistics, terms, total, n) ==
    [statistics EXCEPT
        !.mean = Frac(total, n),
        !.variance = Frac(SquaredDeviations(terms, total, n),
                          n * n * (n - 1))]

RangeSums(robot) ==
    [k \in 1..Len(robot.error.measurements) |->
        SeqSum(robot.error.measurements[k].ranges)]

BearingSums(robot) ==
    [k \in 1..Len(robot.error.measurements) |->
        SeqSum(robot.error.measurements[k].bearings)]

SampleErrorStats(robot) ==
    LET n == Len(robot.error.odometry)
        total_measurements == Len(RangeErrors(robot))
    IN  [robot EXCEPT
            !.forward_velocity_error =
                SampleStats(@, ForwardVelocities(robot),
                            SeqSum(ForwardVelocities(robot)), n),
            !.angular_velocity_error =
                SampleStats(@, AngularVelocities(robot),
                            SeqSum(AngularVelocities(robot)), n),
            !.range_error =
                SampleStats(@, RangeSums(robot),
                            SeqSum(RangeErrors(robot)), total_measurements),
            !.bearing_error =
                SampleStats(@, BearingSums(robot),
                            SeqSum(BearingErrors(robot)), total_measurements)]


-----------------------------------------------------------------------------
(* Simulator: limits and thresholds, on the model's grid                    *)

Width == 60                  \* limits_.width, 15 m
Height == 32                 \* limits_.height, 8 m
ForwardVelocityLimit == 4    \* limits_.forward_velocity
AngularVelocityLimit == 8    \* limits_.angular_velocity
RobotBorder == 4             \* robots are drawn, and steered, 1 m inside
LandmarkSeparation == 8      \* "distance < 2.0"
RobotSeparation == 4         \* "distance < 1.0"
WalkLengthMinimum == 20      \* walk_length(20U, 500U)
MeasurementToOdometryRatio == 5
MaxRange == 16               \* max_range = 4.0
FieldOfView == 2             \* 0.52 rad = 2.6 angle units; bearings are integers

(* What the random generator is taken to draw.  The robots and landmarks    *)
(* lie on the line through the centre of the arena and face along it, so    *)
(* that every angle stays on an axis.                                       *)
MaxPoints == 3               \* most data points of a simulation

DataPoints == 1..MaxPoints

MaxDraws == 3                \* most draws of one placement loop

(* number_of_robots and number_of_landmarks: as many landmarks as robots,   *)
(* more landmarks than robots, fewer landmarks than robots                  *)
Fleets ==
    {[robots |-> 2, landmarks |-> 2], [robots |-> 1, landmarks |-> 2],
     [robots |-> 1, landmarks |-> 0]}

LineY == Height \div 2

LandmarkXs == {20, 48}

RobotXs == {40, 44, 56}

Orientations == {-PI, 0}     \* uniform on [-pi, pi)

InitialVelocities == {ForwardVelocityLimit}

Walks ==
    {[duration |-> WalkLengthMinimum, forward_adjustment |-> 0,
      angular_input |-> 0]}

Variances == {Frac(1, 64)}

Noise == {0, 4}

Distance(x1, y1, x2, y2) ==
    Sqrt((x1 - x2) * (x1 - x2) + (y1 - y2) * (y1 - y2))

(* Simulator::assignVectorMemory, one robot *)
AssignedVectorMemory(robot) ==
    [robot EXCEPT !.groundtruth.states = Append(@, State(0, 0, 0, 0))]

(* Simulator::setErrorStatistics, one robot *)
WithErrorStatistics(robot, id, variance) ==
    [robot EXCEPT !.id = id,
                  !.forward_velocity_error.variance = variance,
                  !.angular_velocity_error.variance = variance,
                  !.range_error.variance = variance,
                  !.bearing_error.variance = variance]

(* no candidate is ever rejected *)
TooCloseNever(x1, y1, x2, y2, separation) == FALSE

(* "if (distance < 2.0)": the candidate is rejected *)
TooClose(x1, y1, x2, y2, separation) == Distance(x1, y1, x2, y2) < separation

(* the sequences of at most MaxDraws values the generator draws from a set *)
Draws(candidates) == UNION {[1..k -> candidates] : k \in 0..MaxDraws}

(* all but the last element *)
Front(s) == SubSeq(s, 1, Len(s) - 1)

(* the loop of Simulator::setLandmarkPositions fed with the given draws: a  *)
(* candidate too close to a landmark placed before it is drawn again (i--); *)
(* the landmarks placed once the draws are used up or all are placed        *)
RECURSIVE LandmarkLoopAfter(_, _, _)
LandmarkLoopAfter(n, placed, draws) ==
    IF Len(placed) = n \/ draws = <<>> THEN placed
    ELSE LET x == Head(draws)
             rejected == \E j \in 1..Len(placed) :
                             TooClose(x, LineY, placed[j], LineY,
                                      LandmarkSeparation)
         IN  LandmarkLoopAfter(n,
                               IF rejected THEN placed ELSE Append(placed, x),
                               Tail(draws))

(* the placement the loop ends with when it uses up exactly these draws *)
LandmarkLoop(n, placed, draws) ==
    IF /\ Len(LandmarkLoopAfter(n, placed, draws)) = n
       /\ \/ draws = <<>>
          \/ Len(LandmarkLoopAfter(n, placed, Front(draws))) < n
    THEN {LandmarkLoopAfter(n, placed, draws)}
    ELSE {}

(* the loop has no attempt counter: after draws that leave it running and   *)
(* end with a rejected candidate, the same candidate can be drawn again     *)
(* and again                                                                *)
LandmarkLoopEndless(n) ==
    \E draws \in Draws(LandmarkXs) \ {<<>>} :
        /\ Len(LandmarkLoopAfter(n, <<>>, Front(draws))) < n
        /\ LandmarkLoopAfter(n, <<>>, draws)
              = LandmarkLoopAfter(n, <<>>, Front(draws))

(* Simulator::setLandmarkPositions: the positions the loop can end with *)
LandmarkPositions(n) ==
    UNION {LandmarkLoop(n, <<>>, draws) : draws \in Draws(LandmarkXs)}

(* the loops of Simulator::setRobotsInitalState fed with the given draws:   *)
(* a candidate is checked against the robots placed before it, then         *)
(* against every landmark, and drawn again when either check fails          *)
RECURSIVE RobotLoopAfter(_, _, _, _)
RobotLoopAfter(n, landmarks, placed, draws) ==
    IF Len(placed) = n \/ draws = <<>> THEN placed
    ELSE LET x == Head(draws)
             rejected ==
                 \/ \E j \in 1..Len(placed) :
                        TooClose(x, LineY, placed[j], LineY, RobotSeparation)
                 \/ \E l \in 1..Len(landmarks) :
                        TooClose(landmarks[l].x, landmarks[l].y, x, LineY,
                                 LandmarkSeparation)
         IN  RobotLoopAfter(n, landmarks,
                            IF rejected THEN placed ELSE Append(placed, x),
                            Tail(draws))

(* the placement the loops end with when they use up exactly these draws *)
RobotLoop(n, landmarks, placed, draws) ==
    IF /\ Len(RobotLoopAfter(n, landmarks, placed, draws)) = n
       /\ \/ draws = <<>>
          \/ Len(RobotLoopAfter(n, landmarks, placed, Front(draws))) < n
    THEN {RobotLoopAfter(n, landmarks, placed, draws)}
    ELSE {}

(* the do-while and the id-- of setRobotsInitalState have no attempt        *)
(* counter either                                                           *)
RobotLoopEndless(n, landmarks) ==
    \E draws \in Draws(RobotXs) \ {<<>>} :
        /\ Len(RobotLoopAfter(n, landmarks, <<>>, Front(draws))) < n
        /\ RobotLoopAfter(n, landmarks, <<>>, draws)
              = RobotLoopAfter(n, landmarks, <<>>, Front(draws))

(* Simulator::setRobotsInitalState: the initial poses the loops can end     *)
(* with; the orientation kept is the one drawn with the accepted position   *)
InitialStates(n, landmarks) ==
    {[id \in 1..n |-> [x |-> xs[id], orientation |-> orientation[id]]] :
        xs \in UNION {RobotLoop(n, landmarks, <<>>, draws) :
                         draws \in Draws(RobotXs)},
        orientation \in [1..n -> Orientations]}

(* the kinematic step of Simulator::setRobotOdometryAndState, not wrapped *)
KinematicStep(time, state, odometry) ==
    State(time,
          state.x + odometry.forward_velocity * SamplePeriod
                        * Cos(state.orientation),
          state.y + odometry.forward_velocity * SamplePeriod
                        * Sin(state.orientation),
          state.orientation + SamplePeriod * odometry.angular_velocity)

(* while (b >= M_PI) b -= 2 M_PI;  while (b <= -M_PI) b += 2 M_PI; *)
RECURSIVE SteerWrapUp(_)
SteerWrapUp(b) == IF b <= -PI THEN SteerWrapUp(b + TwoPI) ELSE b

BearingForCentre(state) ==
    SteerWrapUp(WrapDown(
        Atan2(Height \div 2 - state.y, Width \div 2 - state.x)
            - state.orientation))

OutsideBorder(state) ==
    \/ state.x < RobotBorder
    \/ state.x > Width - RobotBorder
    \/ state.y < RobotBorder
    \/ state.y > Height - RobotBorder

Clamp(value, lowest, highest) ==
    IF value > highest THEN highest
    ELSE IF value < lowest THEN lowest ELSE value

(* the loop "for (k = 1; k < data_points_; k++)" of one robot; vectors are  *)
(* indexed from 1 here, so at(k) is [k + 1]                                 *)
RECURSIVE RandomWalk(_, _, _, _, _)
RandomWalk(robot, k, angular_input, walk, data_points) ==
    IF ~(k < data_points) THEN robot
    ELSE
    LET state == robot.groundtruth.states[k + 1]
        steered == OutsideBorder(state)
        redrawn == ~steered /\ k % walk.duration = 0
        forward_adjustment == IF redrawn THEN walk.forward_adjustment ELSE 0
        input == IF steered
                 THEN (BearingForCentre(state) * AngularVelocityLimit)
                          \div PI
                 ELSE IF redrawn THEN walk.angular_input ELSE angular_input
        new_forward_velocity ==
            Clamp(robot.groundtruth.odometry[k].forward_velocity
                      + forward_adjustment, 0, ForwardVelocityLimit)
        new_angular_velocity ==
            Clamp(input, -AngularVelocityLimit, AngularVelocityLimit)
        odometry == Append(robot.groundtruth.odometry,
                           Odometry(SamplePeriod * k, new_forward_velocity,
                                    new_angular_velocity))
        moved == KinematicStep(SamplePeriod * k, state, odometry[k + 1])
        states ==
            IF Len(robot.groundtruth.states) = data_points
            THEN robot.groundtruth.states
            ELSE Append(robot.groundtruth.states,
                        [moved EXCEPT
                            !.orientation = NormaliseAngle(@)])
    IN  RandomWalk([robot EXCEPT !.groundtruth.odometry = odometry,
                                 !.groundtruth.states = states],
                   k + 1, input, walk, data_points)

(* Simulator::setRobotOdometryAndState, one robot *)
RobotOdometryAndState(robot, initial_forward_velocity, walk, data_points) ==
    LET odometry == Append(robot.groundtruth.odometry,
                           Odometry(0, initial_forward_velocity, 0))
        first == KinematicStep(SamplePeriod, robot.groundtruth.states[1],
                               odometry[1])
    IN  RandomWalk([robot EXCEPT
                       !.groundtruth.odometry = odometry,
                       !.groundtruth.states = Append(@, first)],
                   1, 0, walk, data_points)

(* the precondition check of setRobotOdometryAndState: "The initial state   *)
(* of Robot id was not set"                                                 *)
InitialStateNotSet(robot) == robot.groundtruth.states = <<>>

(* what robot id measures of something at (x, y) at sample k *)
Sighting(robot, k, x, y, barcode) ==
    LET state == robot.groundtruth.states[k + 1]
        x_difference == state.x - x
        y_difference == state.y - y
        range == Sqrt(x_difference * x_difference
                          + y_difference * y_difference)
    IN  [barcode |-> barcode,
         range |-> range,
         in_range |-> ~(range > MaxRange),
         bearing |-> IF range > MaxRange THEN 0
                     ELSE NormaliseAngle(Atan2(y_difference, x_difference)
                                             - state.orientation)]

Seen(sighting) ==
    sighting.in_range /\ ~(Abs(sighting.bearing) > FieldOfView)

(* landmarks_[l]; past the end of the vector the read returns garbage *)
LandmarkAt(landmarks, l, garbage) ==
    IF l <= Len(landmarks) THEN landmarks[l]
    ELSE [Landmark EXCEPT !.barcode = garbage,
                          !.x = Width \div 2 + garbage,
                          !.y = LineY]

(* the body of the loops of Simulator::setRobotMeasurement for robot id at  *)
(* sample k: the other robots, then landmarks 1..total_robots               *)
Sightings(robots, landmarks, id, k, garbage) ==
    LET others == SelectSeq([i \in 1..Len(robots) |-> i],
                            LAMBDA i : i # id)
        of_robots == [s \in 1..Len(others) |->
                         LET subject == robots[others[s]]
                         IN  Sighting(robots[id], k,
                                 subject.groundtruth.states[k + 1].x,
                                 subject.groundtruth.states[k + 1].y,
                                 subject.barcode)]
        of_landmarks == [l \in 1..Len(robots) |->
                            LET landmark == LandmarkAt(landmarks, l, garbage)
                            IN  Sighting(robots[id], k, landmark.x,
                                         landmark.y, landmark.barcode)]
    IN  SelectSeq(of_robots \o of_landmarks, Seen)

(* Simulator::setRobotMeasurement, the bundles pushed for robot id from     *)
(* sample k on                                                              *)
RECURSIVE RobotMeasurement(_, _, _, _, _, _, _)
RobotMeasurement(robots, landmarks, id, k, data_points, measurements, g) ==
    IF ~(k < data_points) THEN measurements
    ELSE
    LET seen == Sightings(robots, landmarks, id, k, g)
        pushed ==
            IF k % MeasurementToOdometryRatio # 0 \/ seen = <<>>
            THEN measurements
            ELSE Append(measurements,
                     Measurement(robots[id].groundtruth.states[k + 1].time,
                         [s \in 1..Len(seen) |-> seen[s].barcode],
                         [s \in 1..Len(seen) |-> seen[s].range],
                         [s \in 1..Len(seen) |-> seen[s].bearing]))
    IN  RobotMeasurement(robots, landmarks, id, k + 1, data_points, pushed, g)

VarianceNotSet(robot) ==
    \/ robot.forward_velocity_error.variance.num = 0
    \/ robot.angular_velocity_error.variance.num = 0
    \/ robot.range_error.variance.num = 0
    \/ robot.bearing_error.variance.num = 0

(* Simulator::addGaussianNoise, one robot *)
WithGaussianNoise(robot, noise) ==
    [robot EXCEPT
        !.synced.odometry = @ \o
            [k \in 1..Len(robot.groundtruth.odometry) |->
                LET odometry == robot.groundtruth.odometry[k]
                IN  Odometry(odometry.time,
                             odometry.forward_velocity + noise,
                             odometry.angular_velocity + noise)],
        !.synced.measurements = @ \o
            [k \in 1..Len(robot.groundtruth.measurements) |->
                LET measurement == robot.groundtruth.measurements[k]
                IN  Measurement(measurement.time, measurement.subjects,
                        [s \in 1..Len(measurement.subjects) |->
                            measurement.ranges[s] + noise],
                        [s \in 1..Len(measurement.subjects) |->
                            measurement.bearings[s] + noise])]]

-----------------------------------------------------------------------------
(* The handlers, one action per function they call in turn                  *)

(* the handlers called on one DataHandler *)
CallPlans ==
    {<<"setDataSet", "setDataSet">>, <<"setSimulation", "setSimulation">>}

Planned(sequence) ==
    \E plan \in CallPlans :
        /\ Len(sequence) <= Len(plan)
        /\ \A i \in 1..Len(sequence) : sequence[i] = plan[i]

At(function, id) == [at |-> function, id |-> id]

Idle == At("idle", 0)

Mode == IF calls = <<>> THEN "none" ELSE Last(calls)

(* the handler ends: normally, by an exception, or by a crash *)
Ends(how) ==
    /\ pc' = Idle
    /\ status' = how

DataHandlerFields ==
    <<landmarks_, barcodes_, total_robots, total_landmarks, total_barcodes,
      total_synced_datapoints>>

Init ==
    /\ robots_ = <<>>
    /\ landmarks_ = <<>>
    /\ barcodes_ = <<>>
    /\ total_robots = 0
    /\ total_landmarks = 0
    /\ total_barcodes = 0
    /\ total_synced_datapoints = 0
    /\ disk = NoDisk
    /\ sim = [data_points_ |-> 0]
    /\ pc = Idle
    /\ status = "constructed"
    /\ ub = {}
    /\ calls = <<>>
    /\ prev = [robots |-> <<>>, status |-> "constructed", ub |-> {}]

(* a handler is entered: the caller survived the previous one *)
Enters(handler) ==
    /\ pc = Idle
    /\ status # "segfault"
    /\ Planned(Append(calls, handler))
    /\ calls' = Append(calls, handler)
    /\ prev' = [robots |-> robots_, status |-> status, ub |-> ub]
    /\ status' = "running"
    /\ ub' = {}

(* DataHandler::setDataSet down to the end of the extraction; the dataset  *)
(* directory does not change between two calls                              *)
SetDataSet ==
    /\ Enters("setDataSet")
    /\ \E files \in (IF disk = NoDisk THEN Datasets ELSE {disk}) :
          /\ disk' = files
          /\ total_landmarks' = DatasetLandmarks
          /\ total_robots' = DatasetRobots
          /\ total_barcodes' = DatasetLandmarks + DatasetRobots
          /\ barcodes_' = files.barcodes
          /\ landmarks_' = ReadLandmarks(files)
          /\ robots_' =
                LET resized == Resize(robots_, DatasetRobots, Robot)
                    named == [i \in 1..DatasetRobots |->
                                 [resized[i] EXCEPT !.id = i]]
                    coded == ReadBarcodes(files, named)
                IN  [i \in 1..DatasetRobots |->
                        ReadRobot(coded[i], files.robots[i])]
    /\ pc' = At("syncData", 0)
    /\ UNCHANGED <<total_synced_datapoints, sim>>

SyncData ==
    /\ pc.at = "syncData"
    /\ IF EmptyStreamRead(robots_)
       THEN /\ Ends("segfault")
            /\ ub' = ub \cup {"empty stream read"}
            /\ UNCHANGED <<robots_, total_synced_datapoints>>
       ELSE LET minimum_time ==
                    MinimumTime(robots_, 2, robots_[1].raw.states[1].time)
                maximum_time ==
                    MaximumTime(robots_, 2, Last(robots_[1].raw.states).time)
                        - minimum_time
                normalised == [i \in 1..Len(robots_) |->
                                  NormaliseTimes(robots_[i], minimum_time)]
                past_end == \E i \in 1..Len(robots_) :
                                SyncPastEnd(normalised[i], maximum_time)
            IN  /\ total_synced_datapoints'
                      = maximum_time \div SamplePeriod + 1
                /\ \E garbage \in (IF past_end THEN Garbage ELSE {0}) :
                      robots_' = [i \in 1..Len(robots_) |->
                                     SyncRobot(normalised[i], maximum_time,
                                               garbage)]
                /\ ub' = IF past_end THEN ub \cup {"odometry read past end"}
                         ELSE ub
                /\ pc' = At("calculateGroundtruthOdometry", 0)
                /\ UNCHANGED status
    /\ UNCHANGED <<landmarks_, barcodes_, total_robots, total_landmarks,
                   total_barcodes, disk, sim, calls, prev>>

CalculateGroundtruthOdometry ==
    /\ pc.at = "calculateGroundtruthOdometry"
    /\ robots_' = [i \in 1..Len(robots_) |->
                      [robots_[i] EXCEPT
                          !.groundtruth.odometry =
                              GroundtruthOdometry(robots_[i])]]
    /\ pc' = At("calculateGroundtruthMeasurement", 0)
    /\ UNCHANGED <<DataHandlerFields, disk, sim, status, ub, calls, prev>>

CalculateGroundtruthMeasurement ==
    /\ pc.at = "calculateGroundtruthMeasurement"
    /\ LET past_end ==
               \E i \in 1..Len(robots_) :
                   GroundtruthMeasurements(robots_, landmarks_, barcodes_, i,
                                           1, 1, 0).past_end
       IN  /\ \E garbage \in (IF past_end THEN Garbage ELSE {0}) :
                 robots_' = [i \in 1..Len(robots_) |->
                     [robots_[i] EXCEPT
                         !.groundtruth.measurements =
                             GroundtruthMeasurements(robots_, landmarks_,
                                 barcodes_, i, 1, 1, garbage).measurements]]
           /\ ub' = IF past_end THEN ub \cup {"state read past end"} ELSE ub
    /\ pc' = At("calculateOdometryError", 1)
    /\ UNCHANGED <<DataHandlerFields, disk, sim, status, calls, prev>>

(* Robot::calculateSensorErrror of robots_[pc.id], function by function *)
CalculateOdometryError ==
    /\ pc.at = "calculateOdometryError"
    /\ IF OdometryErrorThrows(robots_[pc.id])
       THEN /\ Ends("runtime_error")
            /\ UNCHANGED robots_
       ELSE /\ robots_' = [robots_ EXCEPT
                              ![pc.id].error.odometry =
                                  OdometryError(robots_[pc.id])]
            /\ pc' = At("calculateMeasurementError", pc.id)
            /\ UNCHANGED status
    /\ UNCHANGED <<DataHandlerFields, disk, sim, ub, calls, prev>>

CalculateMeasurementError ==
    /\ pc.at = "calculateMeasurementError"
    /\ IF MeasurementErrorThrows(robots_[pc.id])
       THEN /\ Ends("runtime_error")
            /\ UNCHANGED <<robots_, ub>>
       ELSE LET past_end == MeasurementErrorPastEnd(robots_[pc.id])
            IN  /\ \E garbage \in (IF past_end THEN Garbage ELSE {0}) :
                      LET result == MeasurementErrors(robots_[pc.id], 1, <<>>,
                                                      garbage)
                      IN  /\ robots_' = [robots_ EXCEPT
                                 ![pc.id].error.measurements =
                                     result.measurements]
                          /\ IF result.threw
                             THEN Ends("runtime_error")
                             ELSE /\ pc' = At("removeOutliers", pc.id)
                                  /\ UNCHANGED status
                /\ ub' = IF past_end
                         THEN ub \cup {"synced measurement read past end"}
                         ELSE ub
    /\ UNCHANGED <<DataHandlerFields, disk, sim, calls, prev>>

(* after robots_[pc.id]: the next robot, or the handler returns *)
NextRobot ==
    IF pc.id < total_robots
    THEN /\ pc' = At("calculateOdometryError", pc.id + 1)
         /\ UNCHANGED status
    ELSE Ends("ok")

RemoveOutliers ==
    /\ pc.at = "removeOutliers"
    /\ LET quartiles == SetQuartiles(robots_[pc.id])
       IN  CASE quartiles.outcome = "ok" ->
                  /\ robots_' = [robots_ EXCEPT ![pc.id] =
                        [quartiles.robot EXCEPT
                            !.error.measurements =
                                OutliersRemoved(quartiles.robot)]]
                  /\ IF Mode = "setDataSet"
                     THEN /\ pc' = At("calculateSampleErrorStats", pc.id)
                          /\ UNCHANGED status
                     ELSE NextRobot
                  /\ UNCHANGED ub
             [] quartiles.outcome = "out_of_range" ->
                  /\ robots_' = [robots_ EXCEPT ![pc.id] = quartiles.robot]
                  /\ Ends("out_of_range")
                  /\ UNCHANGED ub
             [] quartiles.outcome = "past_end" ->
                  /\ robots_' = [robots_ EXCEPT ![pc.id] = quartiles.robot]
                  /\ \E how \in {"segfault", "out_of_range"} : Ends(how)
                  /\ ub' = ub \cup {"empty channel read"}
    /\ UNCHANGED <<DataHandlerFields, disk, sim, calls, prev>>

CalculateSampleErrorStats ==
    /\ pc.at = "calculateSampleErrorStats"
    /\ IF SampleStatsThrows(robots_[pc.id])
       THEN /\ Ends("runtime_error")
            /\ UNCHANGED robots_
       ELSE /\ robots_' = [robots_ EXCEPT
                              ![pc.id] = SampleErrorStats(robots_[pc.id])]
            /\ NextRobot
    /\ UNCHANGED <<DataHandlerFields, disk, sim, ub, calls, prev>>

(* DataHandler::setSimulation down to the call of the simulator, and the   *)
(* fields Simulator::setSimulation sets; a later simulation asks for as     *)
(* many data points, robots and landmarks as the one before                 *)
SetSimulation ==
    /\ Enters("setSimulation")
    /\ \E data_points \in DataPoints, fleet \in Fleets :
          /\ sim.data_points_ # 0 => data_points = sim.data_points_
          /\ sim.data_points_ # 0 =>
                fleet = [robots |-> total_robots,
                         landmarks |-> total_landmarks]
          /\ total_synced_datapoints' = data_points
          /\ total_landmarks' = fleet.landmarks
          /\ total_robots' = fleet.robots
          /\ total_barcodes' = fleet.landmarks + fleet.robots
          /\ landmarks_' = Resize(landmarks_, fleet.landmarks, Landmark)
          /\ robots_' = Resize(robots_, fleet.robots, Robot)
          /\ barcodes_' = Resize(barcodes_, fleet.landmarks + fleet.robots, 0)
          /\ sim' = [sim EXCEPT !.data_points_ = data_points]
    /\ pc' = At("assignVectorMemory", 0)
    /\ UNCHANGED disk

AssignVectorMemory ==
    /\ pc.at = "assignVectorMemory"
    /\ robots_' = [id \in 1..total_robots |->
                      AssignedVectorMemory(robots_[id])]
    /\ pc' = At("setBarcodes", 0)
    /\ UNCHANGED <<DataHandlerFields, disk, sim, status, ub, calls, prev>>

SetBarcodes ==
    /\ pc.at = "setBarcodes"
    /\ barcodes_' = [id \in 1..total_barcodes |-> id]
    /\ robots_' = [id \in 1..total_robots |->
                      [robots_[id] EXCEPT !.barcode = id]]
    /\ landmarks_' = [i \in 1..total_landmarks |->
                         [landmarks_[i] EXCEPT !.barcode = total_robots + i]]
    /\ pc' = At("setErrorStatistics", 0)
    /\ UNCHANGED <<total_robots, total_landmarks, total_barcodes,
                   total_synced_datapoints, disk, sim, status, ub, calls,
                   prev>>

SetErrorStatistics ==
    /\ pc.at = "setErrorStatistics"
    /\ landmarks_' = [i \in 1..total_landmarks |->
                         [landmarks_[i] EXCEPT !.id = total_robots + i]]
    /\ \E variance \in Variances :
          robots_' = [id \in 1..total_robots |->
                         WithErrorStatistics(robots_[id], id, variance)]
    /\ pc' = At("setLandmarkPositions", 0)
    /\ UNCHANGED <<barcodes_, total_robots, total_landmarks, total_barcodes,
                   total_synced_datapoints, disk, sim, status, ub, calls,
                   prev>>

(* the first landmark is written before the loop: without landmarks the    *)
(* write is past the end of the table, and the handler crashes or goes on;  *)
(* a loop that draws rejected candidates for ever never returns (status     *)
(* "retrying")                                                              *)
SetLandmarkPositions ==
    /\ pc.at = "setLandmarkPositions"
    /\ IF total_landmarks = 0
       THEN /\ ub' = ub \cup {"landmark written past end"}
            /\ landmarks_' = landmarks_
            /\ \E crashes \in BOOLEAN :
                  IF crashes THEN Ends("segfault")
                  ELSE /\ pc' = At("setRobotsInitalState", 0)
                       /\ UNCHANGED status
       ELSE /\ status = "running"
            /\ \/ /\ \E position \in LandmarkPositions(total_landmarks) :
                        landmarks_' =
                            [i \in 1..total_landmarks |->
                                [landmarks_[i] EXCEPT !.x = position[i],
                                                      !.y = LineY]]
                  /\ pc' = At("setRobotsInitalState", 0)
                  /\ UNCHANGED status
               \/ /\ LandmarkLoopEndless(total_landmarks)
                  /\ status' = "retrying"
                  /\ UNCHANGED <<landmarks_, pc>>
            /\ UNCHANGED ub
    /\ UNCHANGED <<robots_, barcodes_, total_robots, total_landmarks,
                   total_barcodes, total_synced_datapoints, disk, sim,
                   calls, prev>>

SetRobotsInitalState ==
    /\ pc.at = "setRobotsInitalState"
    /\ status = "running"
    /\ \/ /\ \E initial \in InitialStates(total_robots, landmarks_) :
                robots_' = [id \in 1..total_robots |->
                               [robots_[id] EXCEPT !.groundtruth.states[1] =
                                   State(0, initial[id].x, LineY,
                                         initial[id].orientation)]]
          /\ pc' = At("setRobotOdometryAndState", 0)
          /\ UNCHANGED status
       \/ /\ RobotLoopEndless(total_robots, landmarks_)
          /\ status' = "retrying"
          /\ UNCHANGED <<robots_, pc>>
    /\ UNCHANGED <<DataHandlerFields, disk, sim, ub, calls, prev>>

SetRobotOdometryAndState ==
    /\ pc.at = "setRobotOdometryAndState"
    /\ IF \E id \in 1..total_robots : InitialStateNotSet(robots_[id])
       THEN /\ Ends("runtime_error")
            /\ UNCHANGED robots_
       ELSE /\ \E velocity \in [1..total_robots -> InitialVelocities],
                  walk \in Walks :
                  robots_' = [id \in 1..total_robots |->
                                 RobotOdometryAndState(robots_[id],
                                     velocity[id], walk, sim.data_points_)]
            /\ pc' = At("setRobotMeasurement", 0)
            /\ UNCHANGED status
    /\ UNCHANGED <<DataHandlerFields, disk, sim, ub, calls, prev>>

SetRobotMeasurement ==
    /\ pc.at = "setRobotMeasurement"
    /\ LET past_end == total_landmarks < total_robots
       IN  /\ \E garbage \in (IF past_end THEN Garbage ELSE {0}) :
                 robots_' = [id \in 1..total_robots |->
                     [robots_[id] EXCEPT !.groundtruth.measurements =
                         RobotMeasurement(robots_, landmarks_, id, 0,
                                          sim.data_points_, @, garbage)]]
           /\ ub' = IF past_end THEN ub \cup {"landmark read past end"}
                    ELSE ub
    /\ pc' = At("addGaussianNoise", 0)
    /\ UNCHANGED <<DataHandlerFields, disk, sim, status, calls, prev>>

AddGaussianNoise ==
    /\ pc.at = "addGaussianNoise"
    /\ IF \E id \in 1..total_robots : VarianceNotSet(robots_[id])
       THEN /\ Ends("runtime_error")
            /\ UNCHANGED robots_
       ELSE /\ \E noise \in Noise :
                  robots_' = [id \in 1..total_robots |->
                                 WithGaussianNoise(robots_[id], noise)]
            /\ pc' = At("calculateOdometryError", 1)
            /\ UNCHANGED status
    /\ UNCHANGED <<DataHandlerFields, disk, sim, ub, calls, prev>>

Next ==
    \/ SetDataSet
    \/ SyncData
    \/ CalculateGroundtruthOdometry
    \/ CalculateGroundtruthMeasurement
    \/ CalculateOdometryError
    \/ CalculateMeasurementError
    \/ RemoveOutliers
    \/ CalculateSampleErrorStats
    \/ SetSimulation
    \/ AssignVectorMemory
    \/ SetBarcodes
    \/ SetErrorStatistics
    \/ SetLandmarkPositions
    \/ SetRobotsInitalState
    \/ SetRobotOdometryAndState
    \/ SetRobotMeasurement
    \/ AddGaussianNoise

Spec == Init /\ [][Next]_vars

-----------------------------------------------------------------------------
(* A Robot on its own: its owner has set the groundtruth and synced records *)
(* (public members of Robot.h) and calls calculateSensorErrror and then     *)
(* calculateSampleErrorStats, as the loop of setDataSet does for each robot *)

MaxChannel == 5              \* most error values of a channel

ErrorValues == {-4, 0, 4}

ErrorChannels == UNION {[1..n -> ErrorValues] : n \in 0..MaxChannel}

(* the robot whose errors will be the given values in each channel: the     *)
(* synced records are zero but for the last odometry sample, which has no   *)
(* error record                                                             *)
RobotWithErrors(values) ==
    LET n == Len(values)
        time(k) == (k - 1) * SamplePeriod
    IN  [Robot EXCEPT
            !.id = 1,
            !.barcode = BarcodeFile[1],
            !.groundtruth.odometry =
                [k \in 1..(n + 1) |->
                    IF k <= n THEN Odometry(time(k), values[k], values[k])
                    ELSE Odometry(time(k), 0, 0)],
            !.synced.odometry = [k \in 1..(n + 1) |-> Odometry(time(k), 0, 0)],
            !.groundtruth.measurements =
                [k \in 1..n |->
                    Measurement1(time(k), BarcodeFile[2], values[k],
                                 values[k])],
            !.synced.measurements =
                [k \in 1..n |-> Measurement1(time(k), BarcodeFile[2], 0, 0)]]

RobotInit ==
    /\ robots_ \in {<<RobotWithErrors(values)>> : values \in ErrorChannels}
    /\ landmarks_ = <<>>
    /\ barcodes_ = <<>>
    /\ total_robots = 1
    /\ total_landmarks = 0
    /\ total_barcodes = 0
    /\ total_synced_datapoints = 0
    /\ disk = NoDisk
    /\ sim = [data_points_ |-> 0]
    /\ pc = At("calculateOdometryError", 1)
    /\ status = "running"
    /\ ub = {}
    /\ calls = <<"setDataSet">>
    /\ prev = [robots |-> <<>>, status |-> "constructed", ub |-> {}]

RobotNext ==
    \/ CalculateOdometryError
    \/ CalculateMeasurementError
    \/ RemoveOutliers
    \/ CalculateSampleErrorStats

RobotSpec == RobotInit /\ [][RobotNext]_vars

(* the simulator runs: a placement step that can be taken is eventually    *)
(* taken                                                                    *)
FairSpec ==
    Spec /\ WF_vars(SetLandmarkPositions) /\ WF_vars(SetRobotsInitalState)

-----------------------------------------------------------------------------
(* Properties                                                               *)

(* setDataSet is past syncData and calculateGroundtruthOdometry *)
Synchronised ==
    /\ Mode = "setDataSet"
    /\ pc.at \notin {"syncData", "calculateGroundtruthOdometry"}
    /\ "empty stream read" \notin ub

(* C1: after syncData and calculateGroundtruthOdometry every robot has as   *)
(* many synced odometry samples as groundtruth states and as groundtruth    *)
(* odometry samples, and that number is total_synced_datapoints for every   *)
(* robot, whatever the extents of the raw streams                           *)
C1_SyncedSizes ==
    Synchronised =>
        \A id \in 1..total_robots :
            /\ Len(robots_[id].synced.odometry) = total_synced_datapoints
            /\ Len(robots_[id].groundtruth.states) = total_synced_datapoints
            /\ Len(robots_[id].groundtruth.odometry) = total_synced_datapoints

(* a robot's raw odometry ended before the horizon and the sizes agree *)
C1_Witness ==
    /\ Synchronised
    /\ "odometry read past end" \in ub
    /\ total_synced_datapoints >= 3
    /\ \A id \in 1..total_robots :
          Len(robots_[id].groundtruth.odometry) = total_synced_datapoints

(* C2: after synchronisation of a dataset, the i-th groundtruth state, the  *)
(* i-th synced odometry sample and the i-th groundtruth odometry sample of  *)
(* every robot carry the time i x sample period, counting from 0            *)
C2_SampleTimes ==
    Synchronised =>
        \A id \in 1..total_robots :
            /\ \A i \in 1..Len(robots_[id].groundtruth.states) :
                  robots_[id].groundtruth.states[i].time
                      = (i - 1) * SamplePeriod
            /\ \A i \in 1..Len(robots_[id].synced.odometry) :
                  robots_[id].synced.odometry[i].time = (i - 1) * SamplePeriod
            /\ \A i \in 1..Len(robots_[id].groundtruth.odometry) :
                  robots_[id].groundtruth.odometry[i].time
                      = (i - 1) * SamplePeriod
            /\ Len(robots_[id].groundtruth.states) >= 1

(* a robot whose raw streams start late has three samples at 0, 2, 4 *)
C2_Witness ==
    /\ Synchronised
    /\ disk.robots[2].states[1].time > disk.robots[1].states[1].time
    /\ Len(robots_[2].groundtruth.states) = 3
    /\ robots_[2].groundtruth.states[3].time = 2 * SamplePeriod
    /\ robots_[2].synced.odometry[3].time = 2 * SamplePeriod
    /\ robots_[2].groundtruth.odometry[3].time = 2 * SamplePeriod

(* C3: after synchronisation every synced measurement bundle of every      *)
(* robot carries the time of one of that robot's groundtruth states, and    *)
(* calculateGroundtruthMeasurement never reads a pose past the end of       *)
(* groundtruth.states                                                       *)
C3_MeasurementTimesOnSyncedClock ==
    Synchronised =>
        /\ \A id \in 1..total_robots :
              \A k \in 1..Len(robots_[id].synced.measurements) :
                  \E i \in 1..Len(robots_[id].groundtruth.states) :
                      robots_[id].groundtruth.states[i].time
                          = robots_[id].synced.measurements[k].time
        /\ "state read past end" \notin ub

WellFormed(measurements) ==
    \A k \in 1..Len(measurements) :
        /\ Len(measurements[k].subjects) = Len(measurements[k].ranges)
        /\ Len(measurements[k].subjects) = Len(measurements[k].bearings)
        /\ Len(measurements[k].subjects) >= 1

(* C4: in every reachable state every bundle of every robot's synced,      *)
(* groundtruth and error measurements has as many ranges and as many        *)
(* bearings as subjects, and at least one subject                           *)
C4_BundlesWellFormed ==
    \A id \in 1..Len(robots_) :
        /\ WellFormed(robots_[id].synced.measurements)
        /\ WellFormed(robots_[id].groundtruth.measurements)
        /\ WellFormed(robots_[id].error.measurements)

(* removeOutliers has erased a triple of a bundle that keeps another one,   *)
(* and a whole bundle, of a robot with a bundle of several subjects         *)
C4_Witness ==
    /\ pc.at = "calculateSampleErrorStats"
    /\ LET robot == robots_[pc.id]
       IN  /\ Len(robot.error.measurements)
                 < Len(robot.groundtruth.measurements)
           /\ \A k \in 1..Len(robot.groundtruth.measurements) :
                 \A s \in 1..Len(robot.groundtruth.measurements[k].subjects) :
                     ~IsInvalid(robot.groundtruth.measurements[k].ranges[s],
                                robot.groundtruth.measurements[k].bearings[s])
           /\ \E k \in 1..Len(robot.error.measurements) :
                 Len(robot.error.measurements[k].subjects) >= 2

(* C5: a second setDataSet on the same dataset directory, starting from     *)
(* the state the first one left, ends with the synced, groundtruth and      *)
(* error records the first one ended with                                   *)
C5_RerunIdentical ==
    (/\ calls = <<"setDataSet", "setDataSet">>
     /\ pc = Idle
     /\ prev.status = "ok"
     /\ status = "ok")
        => \A id \in 1..total_robots :
              /\ robots_[id].synced = prev.robots[id].synced
              /\ robots_[id].groundtruth = prev.robots[id].groundtruth
              /\ robots_[id].error = prev.robots[id].error

(* the simulator of the running or last setSimulation has returned *)
Simulated ==
    /\ Mode = "setSimulation"
    /\ pc.at \in {"calculateOdometryError", "calculateMeasurementError",
                  "removeOutliers", "idle"}

(* C6: the records of a robot are those of the most recent call only: after *)
(* two setSimulation calls with N >= 2 data points each, every robot has N  *)
(* groundtruth states, N groundtruth odometry samples, N synced odometry    *)
(* samples, and as many synced as groundtruth measurement bundles, at most  *)
(* one per measured sample                                                  *)
C6_OnlyLatestRun ==
    (/\ calls = <<"setSimulation", "setSimulation">>
     /\ Simulated
     /\ sim.data_points_ >= 2)
        => \A id \in 1..total_robots :
              /\ Len(robots_[id].groundtruth.states) = sim.data_points_
              /\ Len(robots_[id].groundtruth.odometry) = sim.data_points_
              /\ Len(robots_[id].synced.odometry) = sim.data_points_
              /\ Len(robots_[id].synced.measurements)
                    = Len(robots_[id].groundtruth.measurements)
              /\ Len(robots_[id].groundtruth.measurements)
                    <= (sim.data_points_ - 1) \div MeasurementToOdometryRatio
                           + 1

EmptyStream(file) ==
    file.states = <<>> \/ file.odometry = <<>> \/ file.measurements = <<>>

(* C7: when a raw stream of some robot is empty, syncData ends with an      *)
(* exception before reading that stream, and derives no record from it      *)
C7_IncompleteDatasetSignalled ==
    (/\ calls = <<"setDataSet">>
     /\ pc.at # "syncData"
     /\ \E id \in 1..DatasetRobots : EmptyStream(disk.robots[id]))
        => /\ pc = Idle
           /\ status = "runtime_error"
           /\ ub = {}
           /\ \A id \in 1..total_robots :
                 /\ robots_[id].groundtruth.states = <<>>
                 /\ robots_[id].synced.odometry = <<>>

(* the synced pose i of robot id is interpolated between two raw poses *)
Interpolated(id, i) ==
    LET iterator == FindIf(robots_[id].raw.states, 1, (i - 1) * SamplePeriod)
    IN  iterator # 1 /\ iterator # Len(robots_[id].raw.states) + 1

(* the bearings of the resolved subjects of the groundtruth bundles *)
Bearings(robot) ==
    {robot.groundtruth.measurements[k].bearings[s] :
        <<k, s>> \in
            {<<k, s>> \in (1..Len(robot.groundtruth.measurements))
                              \X (1..(MaxMeas + 1)) :
                /\ s <= Len(robot.groundtruth.measurements[k].bearings)
                /\ ~IsInvalid(robot.groundtruth.measurements[k].ranges[s],
                              robot.groundtruth.measurements[k].bearings[s])}}

(* the orientations this call has produced: the interpolated poses of a     *)
(* dataset, every pose of a simulation                                      *)
ProducedOrientations(id) ==
    {robots_[id].groundtruth.states[i].orientation :
        i \in {i \in 1..Len(robots_[id].groundtruth.states) :
                  Mode = "setSimulation" \/ Interpolated(id, i)}}

Derived ==
    /\ \/ Synchronised /\ pc.at # "calculateGroundtruthMeasurement"
       \/ Simulated

Resolved(truth) ==
    Kept([s \in 1..Len(truth.subjects) |->
             ~(truth.ranges[s] = InvalidRange
               /\ truth.bearings[s] = InvalidBearing)], 1)

(* C10: when calculateMeasurementError returns, the error bundles of the    *)
(* robot are, in order, those of its groundtruth bundles that have a        *)
(* resolved subject, and each holds exactly the resolved subjects, in       *)
(* order, each with its own range error and bearing error                   *)
C10_SentinelSkipped ==
    (pc.at = "removeOutliers" /\ ub = {}) =>
        LET truth == robots_[pc.id].groundtruth.measurements
            synced == robots_[pc.id].synced.measurements
            error == robots_[pc.id].error.measurements
            bundles == Kept([k \in 1..Len(truth) |->
                                Resolved(truth[k]) # <<>>], 1)
        IN  /\ Len(error) = Len(bundles)
            /\ \A j \in 1..Len(bundles) :
                  LET k == bundles[j]
                      resolved == Resolved(truth[k])
                  IN  /\ error[j].time = truth[k].time
                      /\ error[j].subjects =
                            [i \in 1..Len(resolved) |->
                                truth[k].subjects[resolved[i]]]
                      /\ error[j].ranges =
                            [i \in 1..Len(resolved) |->
                                truth[k].ranges[resolved[i]]
                                    - synced[k].ranges[resolved[i]]]
                      /\ error[j].bearings =
                            [i \in 1..Len(resolved) |->
                                truth[k].bearings[resolved[i]]
                                    - synced[k].bearings[resolved[i]]]

(* a robot with a bundle of unlisted barcodes only, which has no error      *)
(* bundle, and a bundle where an unlisted barcode precedes a listed one     *)
C10_Witness ==
    /\ pc.at = "removeOutliers"
    /\ ub = {}
    /\ LET truth == robots_[pc.id].groundtruth.measurements
           error == robots_[pc.id].error.measurements
       IN  /\ \E k \in 1..Len(truth) : Resolved(truth[k]) = <<>>
           /\ \E k \in 1..Len(truth) :
                 /\ Len(truth[k].subjects) >= 2
                 /\ Resolved(truth[k]) # <<>>
                 /\ Resolved(truth[k])[1] # 1
           /\ Len(error) = Len(truth) - 1
           /\ error # <<>>


-----------------------------------------------------------------------------
(* C11 *)

StatisticsOf(robot) ==
    {robot.forward_velocity_error, robot.angular_velocity_error,
     robot.range_error, robot.bearing_error}

(* C11: a statistics computation over a channel of zero or one error value *)
(* is surfaced as an error: the sorted sample is never indexed outside      *)
(* [0, n-1], no statistic is left with a zero divisor, and a handler that   *)
(* ends normally after computing the statistics had at least two values in  *)
(* every channel.                                                           *)
C11_DegenerateSampleSurfaced ==
    /\ "empty channel read" \notin ub
    /\ \A i \in 1..Len(robots_) : \A statistics \in StatisticsOf(robots_[i]) :
          statistics.mean.den # 0 /\ statistics.variance.den # 0
    /\ (pc = Idle /\ status = "ok" /\ Mode = "setDataSet")
          => \A i \in 1..Len(robots_) :
                /\ Len(robots_[i].error.odometry) >= 2
                /\ Len(RangeErrors(robots_[i])) >= 2


-----------------------------------------------------------------------------
(* C12 *)

(* the steps of the running simulation that precede the given one *)
SimulationBefore(step) ==
    /\ Mode = "setSimulation"
    /\ pc.at \in CASE step = "setRobotsInitalState" ->
                         {"setBarcodes", "setErrorStatistics",
                          "setLandmarkPositions", "setRobotsInitalState"}
                   [] step = "setErrorStatistics" ->
                         {"setBarcodes", "setErrorStatistics"}

(* C12: while the initial poses have not been placed, the precondition      *)
(* check of the odometry generation fails (it does not accept the           *)
(* placeholder pose of assignVectorMemory), and while the variances of the  *)
(* first simulation have not been drawn the check of the noise injection    *)
(* fails.                                                                   *)
C12_PreconditionsFailFast ==
    /\ SimulationBefore("setRobotsInitalState")
          => \A id \in 1..total_robots : InitialStateNotSet(robots_[id])
    /\ (SimulationBefore("setErrorStatistics") /\ Len(calls) = 1)
          => \A id \in 1..total_robots : VarianceNotSet(robots_[id])


-----------------------------------------------------------------------------
(* C13 *)

(* the (time, subject, range, bearing) triples of a sequence of bundles, in *)
(* order                                                                    *)
Triples(measurements) ==
    Flatten([k \in 1..Len(measurements) |->
                [s \in 1..Len(measurements[k].subjects) |->
                    <<measurements[k].time, measurements[k].subjects[s],
                      measurements[k].ranges[s],
                      measurements[k].bearings[s]>>]])

(* the triple lies inside [Q1 - 10 IQR, Q3 + 10 IQR] in range and inside    *)
(* [Q1 - 20 IQR, Q3 + 20 IQR] in bearing                                    *)
InsideWindows(robot, triple) ==
    /\ triple[3] >= robot.range_error.q1 - 10 * robot.range_error.iqr
    /\ triple[3] <= robot.range_error.q3 + 10 * robot.range_error.iqr
    /\ triple[4] >= robot.bearing_error.q1 - 20 * robot.bearing_error.iqr
    /\ triple[4] <= robot.bearing_error.q3 + 20 * robot.bearing_error.iqr

RemoveOutliersReturns ==
    /\ pc.at = "removeOutliers"
    /\ status' \in {"running", "ok"}

(* C13: a removeOutliers that returns leaves, in order and with their       *)
(* pairing, exactly the triples that lie inside both windows, the           *)
(* quartiles being those of the errors before the removal; no bundle is     *)
(* left without subjects and no bundle is split or merged.                  *)
C13_ExactlyOutliersRemoved ==
    [][RemoveOutliersReturns =>
          LET before == robots_[pc.id].error.measurements
              after == robots_'[pc.id].error.measurements
              quartiles == SetQuartiles(robots_[pc.id]).robot
          IN  /\ Triples(after)
                    = SelectSeq(Triples(before),
                                LAMBDA triple :
                                    InsideWindows(quartiles, triple))
              /\ \A k \in 1..Len(after) : after[k].subjects # <<>>
              /\ [k \in 1..Len(after) |-> Len(after[k].subjects)]
                    = SelectSeq(
                          [k \in 1..Len(before) |->
                              Len(SelectSeq(Triples(<<before[k]>>),
                                      LAMBDA triple :
                                          InsideWindows(quartiles, triple)))],
                          LAMBDA count : count > 0)
              /\ robots_'[pc.id].range_error = quartiles.range_error
              /\ robots_'[pc.id].bearing_error = quartiles.bearing_error]_vars

(* removeOutliers has removed a triple and kept another, one of the two     *)
(* windows being wider than a point                                         *)
C13_Witness ==
    /\ pc.at = "calculateSampleErrorStats"
    /\ (robots_[pc.id].range_error.iqr # 0
           \/ robots_[pc.id].bearing_error.iqr # 0)
    /\ LET robot == robots_[pc.id]
           derived == Triples(robot.groundtruth.measurements)
           resolved == SelectSeq(derived,
                           LAMBDA triple : ~IsInvalid(triple[3], triple[4]))
       IN  /\ Triples(robot.error.measurements) # <<>>
           /\ Len(Triples(robot.error.measurements)) < Len(resolved)


-----------------------------------------------------------------------------
(* C14 *)

(* the squared distance of two positions is at least metres^2; one metre    *)
(* is 4 length units                                                        *)
Apart(a, b, metres) ==
    (a.x - b.x) * (a.x - b.x) + (a.y - b.y) * (a.y - b.y)
        >= (4 * metres) * (4 * metres)

LandmarksPlaced ==
    /\ Mode = "setSimulation"
    /\ pc.at \in {"setRobotsInitalState", "setRobotOdometryAndState"}

InitialPosesPlaced ==
    /\ Mode = "setSimulation"
    /\ pc.at = "setRobotOdometryAndState"

(* C14: once the landmarks are placed any two of them are at least 2 m      *)
(* apart; once the initial poses are placed every robot is at least 2 m     *)
(* from every landmark and any two robots are at least 1 m apart.           *)
C14_PlacementsSeparated ==
    /\ LandmarksPlaced
          => \A i, j \in 1..Len(landmarks_) :
                i # j => Apart(landmarks_[i], landmarks_[j], 2)
    /\ InitialPosesPlaced
          => /\ \A id \in 1..Len(robots_) : \A l \in 1..Len(landmarks_) :
                   Apart(robots_[id].groundtruth.states[1], landmarks_[l], 2)
             /\ \A i, j \in 1..Len(robots_) :
                   i # j => Apart(robots_[i].groundtruth.states[1],
                                  robots_[j].groundtruth.states[1], 1)

(* the placements are done, a robot standing exactly 2 m from a landmark,   *)
(* in a simulation that placed over the positions of an earlier one         *)
C14_Witness ==
    /\ InitialPosesPlaced
    /\ Len(calls) = 2
    /\ \E id \in 1..Len(robots_) : \E l \in 1..Len(landmarks_) :
          /\ Apart(robots_[id].groundtruth.states[1], landmarks_[l], 2)
          /\ landmarks_[l].x - robots_[id].groundtruth.states[1].x = 8


-----------------------------------------------------------------------------
(* C15 *)

(* syncData has just returned *)
SyncDataReturned ==
    /\ Mode = "setDataSet"
    /\ pc.at = "calculateGroundtruthOdometry"

(* the multiple of the sample period nearest to t, the nearer of two being  *)
(* the later one                                                            *)
NearestSample(t) ==
    CHOOSE m \in (t - SamplePeriod)..(t + SamplePeriod) :
        /\ m % SamplePeriod = 0
        /\ 2 * m - SamplePeriod <= 2 * t
        /\ 2 * t < 2 * m + SamplePeriod

(* C15: when syncData returns, the triples of a robot's synced bundles are, *)
(* in order, its raw records, each under the multiple of the sample period  *)
(* nearest to its time (a half rounds up), and two adjacent bundles never   *)
(* carry the same time.                                                     *)
C15_MeasurementsRegrouped ==
    SyncDataReturned =>
        \A id \in 1..Len(robots_) :
            LET raw == robots_[id].raw.measurements
                synced == robots_[id].synced.measurements
            IN  /\ Triples(synced)
                      = [j \in 1..Len(raw) |->
                            <<NearestSample(raw[j].time), raw[j].subjects[1],
                              raw[j].ranges[1], raw[j].bearings[1]>>]
                /\ \A k \in 1..(Len(synced) - 1) :
                      synced[k].time # synced[k + 1].time

(* a record half-way between two samples has joined the bundle of the       *)
(* record before it, and a later record has started another bundle          *)
C15_Witness ==
    /\ SyncDataReturned
    /\ \E id \in 1..Len(robots_) :
          LET raw == robots_[id].raw.measurements
              synced == robots_[id].synced.measurements
          IN  /\ Len(synced) >= 2
              /\ Len(synced[1].subjects) >= 2
              /\ raw[2].time % SamplePeriod # 0
              /\ synced[1].time = raw[2].time + 1


-----------------------------------------------------------------------------
(* C16 *)

(* calculateGroundtruthOdometry has just returned *)
GroundtruthOdometryReturned ==
    /\ Mode = "setDataSet"
    /\ pc.at = "calculateGroundtruthMeasurement"

-----------------------------------------------------------------------------
(* C17 *)

(* C17: after the first setSimulation with N >= 1 data points every robot   *)
(* has N groundtruth states, N groundtruth odometry samples and N synced    *)
(* odometry samples.                                                        *)
C17_SimulatedSizes ==
    (calls = <<"setSimulation">> /\ Simulated)
        => \A id \in 1..total_robots :
              /\ Len(robots_[id].groundtruth.states) = sim.data_points_
              /\ Len(robots_[id].groundtruth.odometry) = sim.data_points_
              /\ Len(robots_[id].synced.odometry) = sim.data_points_


-----------------------------------------------------------------------------
(* C18 *)

(* record i (counted from 0) of the stream carries time i x sample period *)
OnSampleClock(stream) ==
    \A i \in 1..Len(stream) : stream[i].time = (i - 1) * SamplePeriod

(* C18: after the first simulation every robot's groundtruth states,        *)
(* groundtruth odometry and synced odometry carry time i x sample period at *)
(* index i, and every measurement bundle carries the time of a measured     *)
(* step k, k x sample period.                                               *)
C18_SimulatedTimes ==
    (calls = <<"setSimulation">> /\ Simulated)
        => \A id \in 1..total_robots :
              /\ OnSampleClock(robots_[id].groundtruth.states)
              /\ OnSampleClock(robots_[id].groundtruth.odometry)
              /\ OnSampleClock(robots_[id].synced.odometry)
              /\ \A m \in 1..Len(robots_[id].groundtruth.measurements) :
                    \E k \in 0..(sim.data_points_ - 1) :
                        /\ k % MeasurementToOdometryRatio = 0
                        /\ robots_[id].groundtruth.measurements[m].time
                              = k * SamplePeriod


-----------------------------------------------------------------------------
(* C19 *)

(* the last time stamp of the robot's three raw streams that ends first *)
LastCommonTime(robot) ==
    Min3(Last(robot.raw.states).time, Last(robot.raw.odometry).time,
         Last(robot.raw.measurements).time)

(* the smallest of the robots' LastCommonTime *)
Horizon ==
    CHOOSE h \in {LastCommonTime(robots_[i]) : i \in 1..Len(robots_)} :
        \A i \in 1..Len(robots_) : h <= LastCommonTime(robots_[i])

(* C19: when syncData returns, the number of synced steps is the horizon,   *)
(* the minimum over all robots of the robot's maximum stream time on the    *)
(* normalised clock, divided by the sample period and rounded down.         *)
C19_HorizonIsMinimum ==
    SyncDataReturned =>
        /\ total_synced_datapoints - 1 = Horizon \div SamplePeriod
        /\ \A id \in 1..Len(robots_) :
              Len(robots_[id].groundtruth.states) - 1
                  = Horizon \div SamplePeriod


-----------------------------------------------------------------------------
(* C20 *)

(* the time stamps of a robot's raw streams, stream by stream *)
RawTimes(data) ==
    <<[j \in 1..Len(data.states) |-> data.states[j].time],
      [j \in 1..Len(data.odometry) |-> data.odometry[j].time],
      [j \in 1..Len(data.measurements) |-> data.measurements[j].time]>>

(* the first time stamps of the raw streams of all robots *)
FirstTimes ==
    UNION {{RawTimes(robots_[i].raw)[stream][1] :
               stream \in {n \in 1..3 : RawTimes(robots_[i].raw)[n] # <<>>}} :
              i \in 1..Len(robots_)}

(* the raw record with its time stamp put to 0 *)
Untimed(stream) == [j \in 1..Len(stream) |-> [stream[j] EXCEPT !.time = 0]]

(* C20: when syncData returns, the smallest first time stamp of all raw     *)
(* streams of all robots is 0 and no raw time stamp is negative; every raw  *)
(* time stamp is the one read from the dataset shifted by one common        *)
(* offset, and the raw records are otherwise as read.                       *)
C20_TimeOriginNormalised ==
    SyncDataReturned =>
        /\ 0 \in FirstTimes
        /\ \A time \in FirstTimes : time >= 0
        /\ \A i \in 1..Len(robots_) : \A stream \in 1..3 :
              \A j \in 1..Len(RawTimes(robots_[i].raw)[stream]) :
                  RawTimes(robots_[i].raw)[stream][j] >= 0
        /\ \E offset \in (BaseTime - 2)..(BaseTime + 2) :
              \A i \in 1..Len(robots_) : \A stream \in 1..3 :
                  \A j \in 1..Len(RawTimes(robots_[i].raw)[stream]) :
                      RawTimes(robots_[i].raw)[stream][j]
                          = RawTimes(disk.robots[i])[stream][j] - offset
        /\ \A i \in 1..Len(robots_) :
              /\ Untimed(robots_[i].raw.states)
                    = Untimed(disk.robots[i].states)
              /\ Untimed(robots_[i].raw.odometry)
                    = Untimed(disk.robots[i].odometry)
              /\ Untimed(robots_[i].raw.measurements)
                    = Untimed(disk.robots[i].measurements)


-----------------------------------------------------------------------------
(* C21 *)

(* value lies on the line through (time_a, a) and (time_b, b) at time t *)
OnLine(value, t, time_a, a, time_b, b) ==
    (value - a) * (time_b - time_a) = (t - time_a) * (b - a)

(* the synced pose is the raw pose but for its time *)
SamePose(state, raw) ==
    /\ state.x = raw.x
    /\ state.y = raw.y
    /\ state.orientation = raw.orientation

(* C21: when syncData returns, the synced pose of every robot at every      *)
(* step t is the first raw pose if t precedes the first raw sample, the     *)
(* last raw pose if t is at or past the last raw sample, and otherwise has  *)
(* the x and y of the linear interpolation at t between the two             *)
(* consecutive raw samples that bracket t, a step on a raw sample time      *)
(* having that sample's position.                                           *)
C21_PosesClampedOrInterpolated ==
    SyncDataReturned =>
        \A id \in 1..Len(robots_) :
            LET raw == robots_[id].raw.states
                states == robots_[id].groundtruth.states
            IN  \A i \in 1..Len(states) :
                    LET t == (i - 1) * SamplePeriod
                    IN  /\ states[i].time = t
                        /\ t < raw[1].time => SamePose(states[i], raw[1])
                        /\ t >= Last(raw).time
                              => SamePose(states[i], Last(raw))
                        /\ \A j \in 1..(Len(raw) - 1) :
                              (raw[j].time <= t /\ t < raw[j + 1].time) =>
                                  /\ OnLine(states[i].x, t, raw[j].time,
                                            raw[j].x, raw[j + 1].time,
                                            raw[j + 1].x)
                                  /\ OnLine(states[i].y, t, raw[j].time,
                                            raw[j].y, raw[j + 1].time,
                                            raw[j + 1].y)
                                  /\ raw[j].time = t
                                        => /\ states[i].x = raw[j].x
                                           /\ states[i].y = raw[j].y

(* one robot has a step before its first raw pose and a step strictly       *)
(* between two raw poses, another has a step past its last raw pose, and a  *)
(* third has a step on a raw sample time                                    *)
C21_Witness ==
    /\ SyncDataReturned
    /\ \E id \in 1..Len(robots_) :
          LET raw == robots_[id].raw.states
              states == robots_[id].groundtruth.states
          IN  /\ Len(raw) >= 2 /\ Len(states) >= 2
              /\ 0 < raw[1].time
              /\ raw[1].time < SamplePeriod /\ SamplePeriod < raw[2].time
              /\ states[2].x # raw[1].x /\ states[2].x # raw[2].x
    /\ \E id \in 1..Len(robots_) :
          /\ Len(robots_[id].groundtruth.states) >= 2
          /\ Last(robots_[id].raw.states).time < SamplePeriod
    /\ \E id \in 1..Len(robots_) :
          /\ Len(robots_[id].raw.states) >= 3
          /\ robots_[id].raw.states[2].time = SamplePeriod
          /\ Len(robots_[id].groundtruth.states) >= 2


-----------------------------------------------------------------------------
(* C22 *)

(* C22: when syncData returns, no raw odometry sample past the end of a     *)
(* stream has been read; the synced odometry record of every robot at a     *)
(* step t before the first or at or after the last raw odometry sample is   *)
(* (t, 0, 0), and at a step inside the raw window, the last raw interval    *)
(* included, it is the linear interpolation of the two raw samples that     *)
(* bracket t.                                                               *)
C22_OdometryZeroOutsideWindow ==
    SyncDataReturned =>
        /\ "odometry read past end" \notin ub
        /\ \A id \in 1..Len(robots_) :
              LET raw == robots_[id].raw.odometry
                  synced == robots_[id].synced.odometry
              IN  \A i \in 1..Len(synced) :
                      LET t == (i - 1) * SamplePeriod
                      IN  /\ synced[i].time = t
                          /\ (raw # <<>>
                                 /\ (t < raw[1].time \/ t >= Last(raw).time))
                                => synced[i] = Odometry(t, 0, 0)
                          /\ \A j \in 1..(Len(raw) - 1) :
                                (raw[j].time <= t /\ t < raw[j + 1].time) =>
                                    /\ OnLine(synced[i].forward_velocity, t,
                                              raw[j].time,
                                              raw[j].forward_velocity,
                                              raw[j + 1].time,
                                              raw[j + 1].forward_velocity)
                                    /\ OnLine(synced[i].angular_velocity, t,
                                              raw[j].time,
                                              raw[j].angular_velocity,
                                              raw[j + 1].time,
                                              raw[j + 1].angular_velocity)


-----------------------------------------------------------------------------
(* C23 *)

(* the angle lies in (-pi, pi] *)
Wrapped(angle) == -PI < angle /\ angle <= PI

(* calculateMeasurementError has just returned for robots_[pc.id] *)
ErrorsCalculated == pc.at = "removeOutliers" /\ ub = {}

(* C23: when the errors of a robot are calculated, every odometry error     *)
(* record is the groundtruth record minus the synced record, the angular    *)
(* velocity error being that difference wrapped into (-pi, pi], and every   *)
(* bearing error of every measurement triple lies in (-pi, pi].             *)
C23_AngularErrorsWrapped ==
    ErrorsCalculated =>
        LET robot == robots_[pc.id]
        IN  /\ \A k \in 1..Len(robot.error.odometry) :
                  LET error == robot.error.odometry[k]
                      truth == robot.groundtruth.odometry[k]
                      synced == robot.synced.odometry[k]
                  IN  /\ error.forward_velocity
                            = truth.forward_velocity - synced.forward_velocity
                      /\ (error.angular_velocity
                             - (truth.angular_velocity
                                   - synced.angular_velocity)) % TwoPI = 0
                      /\ Wrapped(error.angular_velocity)
            /\ \A k \in 1..Len(robot.error.measurements) :
                  \A s \in 1..Len(robot.error.measurements[k].bearings) :
                      Wrapped(robot.error.measurements[k].bearings[s])


-----------------------------------------------------------------------------
(* C24 *)

(* two fractions are the same number *)
SameNumber(f, g) == f.num * g.den = g.num * f.den

(* the arithmetic mean of the values *)
MeanOf(values) == Frac(SeqSum(values), Len(values))

(* sum (x_i - mean)^2 / (n - 1) over the values, as a fraction *)
VarianceOf(values) ==
    LET n == Len(values)
        total == SeqSum(values)
    IN  Frac(SeqSum([i \in 1..n |->
                        (n * values[i] - total) * (n * values[i] - total)]),
             n * n * (n - 1))

(* the statistics are the mean and the Bessel-corrected variance of values *)
StatisticsAreOf(statistics, values) ==
    /\ SameNumber(statistics.mean, MeanOf(values))
    /\ SameNumber(statistics.variance, VarianceOf(values))

SampleErrorStatsReturns ==
    /\ pc.at = "calculateSampleErrorStats"
    /\ status' \in {"running", "ok"}

(* C24: a calculateSampleErrorStats that returns leaves, in each of the     *)
(* four channels, the arithmetic mean of the n individual error values of   *)
(* the channel and the sum of their squared deviations from it over n - 1;  *)
(* for range and bearing the values are the observations of all bundles,    *)
(* one by one.                                                              *)
C24_SampleStatisticsPerValue ==
    [][SampleErrorStatsReturns =>
          LET before == robots_[pc.id]
              after == robots_'[pc.id]
          IN  /\ StatisticsAreOf(after.forward_velocity_error,
                                 ForwardVelocities(before))
              /\ StatisticsAreOf(after.angular_velocity_error,
                                 AngularVelocities(before))
              /\ StatisticsAreOf(after.range_error, RangeErrors(before))
              /\ StatisticsAreOf(after.bearing_error,
                                 BearingErrors(before))]_vars


-----------------------------------------------------------------------------
(* C25 *)

(* the position, counted from 1, of the median of n sorted values: index    *)
(* ceil(n / 2) - 1 counted from 0                                           *)
MedianRank(n) == (n + 1) \div 2

(* the lower half ends with the median element (for an even n this is the   *)
(* first n / 2 elements); the upper half is what lies above it              *)
LowerHalf(sorted) == SubSeq(sorted, 1, MedianRank(Len(sorted)))

UpperHalf(sorted) ==
    SubSeq(sorted, MedianRank(Len(sorted)) + 1, Len(sorted))

(* the statistics hold the quartiles of the channel *)
QuartilesAreOf(statistics, values) ==
    LET sorted == Sort(values)
    IN  Len(sorted) >= 2 =>
            /\ statistics.median = sorted[MedianRank(Len(sorted))]
            /\ statistics.q1
                  = LowerHalf(sorted)[MedianRank(Len(LowerHalf(sorted)))]
            /\ statistics.q3
                  = UpperHalf(sorted)[MedianRank(Len(UpperHalf(sorted)))]
            /\ statistics.iqr = statistics.q3 - statistics.q1
            /\ statistics.q1 <= statistics.median
            /\ statistics.median <= statistics.q3

(* C25: when the quartiles of a robot have been set, each channel of        *)
(* n >= 2 values has as median the sorted element of index ceil(n/2) - 1,   *)
(* as Q1 the median by the same rule of the lower half (which ends with     *)
(* the median element), as Q3 the median by the same rule of the elements   *)
(* above the median index, IQR = Q3 - Q1 and Q1 <= median <= Q3.            *)
C25_QuartilesByLowerMedian ==
    [][RemoveOutliersReturns =>
          LET before == robots_[pc.id]
              after == robots_'[pc.id]
          IN  /\ QuartilesAreOf(after.forward_velocity_error,
                                ForwardVelocities(before))
              /\ QuartilesAreOf(after.angular_velocity_error,
                                AngularVelocities(before))
              /\ QuartilesAreOf(after.range_error, RangeErrors(before))
              /\ QuartilesAreOf(after.bearing_error,
                                BearingErrors(before))]_vars


-----------------------------------------------------------------------------
(* C26 *)

(* the range and the bearing of a subject at (x, y) from the observer's     *)
(* pose: the distance, and the direction of the subject relative to the     *)
(* observer's heading                                                       *)
TruthRange(observer, x, y) == Distance(observer.x, observer.y, x, y)

TruthBearing(observer, x, y) ==
    NormaliseAngle(Atan2(y - observer.y, x - observer.x)
                       - observer.orientation)

Sensed(observer, x, y) ==
    /\ TruthRange(observer, x, y) <= MaxRange
    /\ Abs(TruthBearing(observer, x, y)) <= FieldOfView

(* the barcodes of the other robots and of the landmarks of the table that  *)
(* robot id senses at step k                                                *)
SensedSubjects(id, k) ==
    LET observer == robots_[id].groundtruth.states[k + 1]
    IN  {robots_[i].barcode :
            i \in {i \in 1..Len(robots_) :
                      /\ i # id
                      /\ Sensed(observer,
                                robots_[i].groundtruth.states[k + 1].x,
                                robots_[i].groundtruth.states[k + 1].y)}}
        \cup {landmarks_[l].barcode :
                 l \in {l \in 1..Len(landmarks_) :
                           Sensed(observer, landmarks_[l].x,
                                  landmarks_[l].y)}}

(* the measurement steps of a simulation, in order *)
MeasurementSteps ==
    [j \in 1..((sim.data_points_ - 1) \div MeasurementToOdometryRatio + 1)
        |-> MeasurementToOdometryRatio * (j - 1)]

(* setRobotMeasurement of the first simulation has just returned *)
MeasurementsSimulated ==
    /\ calls = <<"setSimulation">>
    /\ pc.at = "addGaussianNoise"

(* C26: when the measurements of a simulation are generated, the bundles of *)
(* every observer are, in order, those of the measurement steps at which it *)
(* senses a subject, and each holds exactly the other robots and the        *)
(* landmarks of the table within the maximum range and within half the      *)
(* field of view of the observer's heading; no landmark is read past the    *)
(* end of the table.                                                        *)
C26_BundlesHoldSensedSubjects ==
    MeasurementsSimulated =>
        /\ "landmark read past end" \notin ub
        /\ \A id \in 1..total_robots :
              LET bundles == robots_[id].groundtruth.measurements
                  sensed == SelectSeq(
                                [j \in 1..Len(MeasurementSteps) |->
                                    SensedSubjects(id, MeasurementSteps[j])],
                                LAMBDA subjects : subjects # {})
              IN  /\ Len(bundles) = Len(sensed)
                  /\ \A m \in 1..Len(bundles) :
                        /\ {bundles[m].subjects[s] :
                                s \in 1..Len(bundles[m].subjects)} = sensed[m]
                        /\ Len(bundles[m].subjects) = Cardinality(sensed[m])


-----------------------------------------------------------------------------
(* C27 *)

(* the simulator is placing the landmarks or the initial poses *)
Placing ==
    /\ Mode = "setSimulation"
    /\ pc.at \in {"setLandmarkPositions", "setRobotsInitalState"}

(* C27: landmark placement and initial-pose placement always terminate: a   *)
(* simulation that is placing landmarks or initial poses eventually is      *)
(* past the placement (by success, or by a failure that ends the handler),  *)
(* also when candidates keep being rejected.                                *)
C27_PlacementTerminates == Placing ~> ~Placing


-----------------------------------------------------------------------------
(* C28 *)

(* calculateGroundtruthOdometry has just returned *)
GroundtruthOdometryCalculated == pc.at = "calculateGroundtruthMeasurement"

(* the heading is a multiple of pi/2, where std::cos and std::sin are exact *)
AxisHeading(state) == state.orientation % (PI \div 2) = 0

(* the pose that dead-reckoning over one sample period reaches from state   *)
(* with the odometry sample, as testGroundtruthOdometry computes it         *)
DeadReckoned(state, odometry) ==
    [x |-> state.x + odometry.forward_velocity * SamplePeriod
                         * Cos(state.orientation),
     y |-> state.y + odometry.forward_velocity * SamplePeriod
                         * Sin(state.orientation),
     orientation |-> NormaliseAngle(state.orientation
                         + SamplePeriod * odometry.angular_velocity)]

(* robots_[id] moves against its heading between the steps k and k + 1 *)
MovesBackwards(id, k) ==
    LET states == robots_[id].groundtruth.states
    IN  /\ k < Len(states)
        /\ states[k].orientation % TwoPI = PI
        /\ states[k + 1].x > states[k].x

(* C28: when the groundtruth odometry has been calculated, dead-reckoning   *)
(* from the groundtruth state k of a robot with its groundtruth odometry    *)
(* sample k reaches the x, the y and, modulo a full turn, the orientation   *)
(* of the groundtruth state k + 1, whatever the direction of the            *)
(* displacement relative to the heading.                                    *)
C28_DeadReckoningReproducesStates ==
    GroundtruthOdometryCalculated =>
        \A id \in 1..Len(robots_) :
            LET states == robots_[id].groundtruth.states
                odometry == robots_[id].groundtruth.odometry
            IN  \A k \in 1..(Len(states) - 1) :
                    AxisHeading(states[k]) =>
                        LET reached == DeadReckoned(states[k], odometry[k])
                        IN  /\ reached.x = states[k + 1].x
                            /\ reached.y = states[k + 1].y
                            /\ (reached.orientation
                                   - states[k + 1].orientation) % TwoPI = 0


-----------------------------------------------------------------------------
(* C29 *)

(* calculateGroundtruthMeasurement of a dataset has just returned, and has  *)
(* read no state past the end of a vector                                   *)
GroundtruthMeasurementsCalculated ==
    /\ Mode = "setDataSet"
    /\ pc = At("calculateOdometryError", 1)
    /\ "state read past end" \notin ub

(* the state of the sequence that carries the time stamp *)
StateOfTime(states, time) ==
    states[CHOOSE t \in 1..Len(states) : states[t].time = time]

(* range and bearing are those of a subject at (x, y) *)
MeasuredFrom(observer, x, y, range, bearing) ==
    /\ range = TruthRange(observer, x, y)
    /\ bearing = TruthBearing(observer, x, y)

(* a groundtruth bundle holds a landmark that is not stored at the index    *)
(* its id less 6                                                            *)
MeasuresMisplacedLandmark ==
    \E id \in 1..Len(robots_) :
        \E k \in 1..Len(robots_[id].groundtruth.measurements) :
            LET bundle == robots_[id].groundtruth.measurements[k]
            IN  \E s \in 1..Len(bundle.subjects) :
                    \E l \in 1..Len(landmarks_) :
                        /\ landmarks_[l].barcode = bundle.subjects[s]
                        /\ landmarks_[l].id # l + RobotIdLimit - 1

(* C29: when the groundtruth measurements of a dataset are calculated,      *)
(* getID of every entry of the barcode table is the entry's position        *)
(* (counted from 1) and getID of a barcode that is not in the table is -1;  *)
(* and every subject of every groundtruth bundle has the range and the      *)
(* bearing measured from the observer's pose of the bundle's time to the    *)
(* position of the landmark that carries the subject's barcode, wherever    *)
(* the landmark table stores it, or to the pose, of the same time, of the   *)
(* robot that carries it.                                                   *)
C29_SubjectResolvedByIdentity ==
    GroundtruthMeasurementsCalculated =>
        /\ \A i \in 1..total_barcodes :
              GetID(barcodes_, total_barcodes, barcodes_[i]) = i
        /\ GetID(barcodes_, total_barcodes, UnknownBarcode) = -1
        /\ \A id \in 1..Len(robots_) :
              \A k \in 1..Len(robots_[id].groundtruth.measurements) :
                  LET bundle == robots_[id].groundtruth.measurements[k]
                      observer == StateOfTime(robots_[id].groundtruth.states,
                                              bundle.time)
                  IN  \A s \in 1..Len(bundle.subjects) :
                          /\ \A l \in 1..Len(landmarks_) :
                                landmarks_[l].barcode = bundle.subjects[s] =>
                                    MeasuredFrom(observer, landmarks_[l].x,
                                                 landmarks_[l].y,
                                                 bundle.ranges[s],
                                                 bundle.bearings[s])
                          /\ \A j \in 1..Len(robots_) :
                                robots_[j].barcode = bundle.subjects[s] =>
                                    LET subject ==
                                            StateOfTime(
                                                robots_[j].groundtruth.states,
                                                bundle.time)
                                    IN  MeasuredFrom(observer, subject.x,
                                                     subject.y,
                                                     bundle.ranges[s],
                                                     bundle.bearings[s])


-----------------------------------------------------------------------------
(* C30 *)

(* the positions, at the time stamp, of the subjects that carry the barcode *)
SubjectPositions(barcode, time) ==
    {[x |-> landmarks_[l].x, y |-> landmarks_[l].y] :
        l \in {l \in 1..Len(landmarks_) : landmarks_[l].barcode = barcode}}
    \cup {[x |-> StateOfTime(robots_[j].groundtruth.states, time).x,
           y |-> StateOfTime(robots_[j].groundtruth.states, time).y] :
             j \in {j \in 1..Len(robots_) : robots_[j].barcode = barcode}}

(* the subject is within the maximum range straight ahead of the observer *)
DirectlyAhead(observer, x, y) ==
    /\ TruthRange(observer, x, y) <= MaxRange
    /\ TruthRange(observer, x, y) > 0
    /\ TruthBearing(observer, x, y) = 0

(* a bundle of a simulation holds a subject other than a misread landmark *)
SimulatedSubjectMeasured ==
    /\ MeasurementsSimulated
    /\ "landmark read past end" \notin ub
    /\ \E id \in 1..total_robots :
          robots_[id].groundtruth.measurements # <<>>

(* C30: when the measurements of a simulation are generated, every subject  *)
(* of every bundle has the range and the bearing that the groundtruth       *)
(* derivation computes for the observer's pose and the subject's position   *)
(* of the bundle's time: the Euclidean distance, and atan2 of the subject's *)
(* position less the observer's, less the observer's orientation, wrapped;  *)
(* and a landmark straight ahead of the observer at a measurement step is   *)
(* in the observer's bundle of that step, with bearing 0.                   *)
C30_SimulatedTruthIsDerivedTruth ==
    (MeasurementsSimulated /\ "landmark read past end" \notin ub) =>
        \A id \in 1..total_robots :
            LET bundles == robots_[id].groundtruth.measurements
                states == robots_[id].groundtruth.states
            IN  /\ \A m \in 1..Len(bundles) :
                      LET observer == StateOfTime(states, bundles[m].time)
                      IN  \A s \in 1..Len(bundles[m].subjects) :
                              \A subject \in
                                  SubjectPositions(bundles[m].subjects[s],
                                                   bundles[m].time) :
                                  MeasuredFrom(observer, subject.x, subject.y,
                                               bundles[m].ranges[s],
                                               bundles[m].bearings[s])
                /\ \A j \in 1..Len(MeasurementSteps) :
                      LET observer == states[MeasurementSteps[j] + 1]
                      IN  \A l \in 1..Min2(total_robots, Len(landmarks_)) :
                              DirectlyAhead(observer, landmarks_[l].x,
                                            landmarks_[l].y) =>
                                  \E m \in 1..Len(bundles) :
                                      /\ bundles[m].time = observer.time
                                      /\ \E s \in
                                             1..Len(bundles[m].subjects) :
                                             /\ bundles[m].subjects[s]
                                                   = landmarks_[l].barcode
                                             /\ bundles[m].bearings[s] = 0

====
